---- MODULE Spec2Model ----
(***************************************************************************)
(* Model of thunor's dose-response curve fitting (src/thunor/curve_fit.py): *)
(* the curve fitter fit_drc, the group orchestrator fit_params_minimal, the  *)
(* re-attachment of the response series, the derived statistics added by    *)
(* _attach_extra_params, is_param_truncated, and the lazily computed        *)
(* popt_rel of a curve, step by step, under one or several threads.         *)
(*                                                                          *)
(* Floating point values are modelled by integers: doses in dose units,     *)
(* responses in response units, p-values in thousandths.  A mean is kept    *)
(* exactly as the pair <<sum, count>>.  The numerical optimizer             *)
(* (scipy.optimize.curve_fit) and the F distribution (scipy.stats.f) are    *)
(* library calls: their results are chosen nondeterministically among the   *)
(* outcomes the library can produce.                                        *)
(***************************************************************************)
EXTENDS Integers, Sequences, FiniteSets, TLC

\* ------------------------------------------------------------------ bounds

\* Largest number of samples in a direct call of fit_drc.
MaxSamples == 6

\* Largest number of rows of the experimental table and of the control table
\* given to fit_params_minimal.
MaxExptRows == 2
MaxCtrlRows == 1

\* Largest number of rows of a parameter table given to _attach_extra_params
\* and to is_param_truncated.
MaxBaseRows == 2

\* Number of threads that share one curve instance, and largest number of
\* accesses of popt_rel or fit_rel each thread makes.
MaxThreads == 2
MaxAccesses == 2

\* ------------------------------------------------------- values and helpers

\* np.nan: a value no number equals.
NaN == -1000

\* Python's None for an optional scalar argument.
None == -2000

IsNaN(v) == v = NaN

Range(s) == {s[i] : i \in 1..Len(s)}

RECURSIVE SumSeq(_)
SumSeq(s) == IF s = <<>> THEN 0 ELSE Head(s) + SumSeq(Tail(s))

SetMin(S) == CHOOSE m \in S : \A x \in S : m <= x

SetMax(S) == CHOOSE m \in S : \A x \in S : m >= x

\* np.mean(y), exactly: the pair <<sum, count>>.
Mean(y) == <<SumSeq(y), Len(y)>>

\* np.std(y) enters only through the comparison v > mean(y) + std(y).  With
\* S = sum(y), n = len(y): std(y) = sqrt(n*sum(y^2) - S^2) / n, so
\* v > mean + std  <=>  n*v - S > 0  /\  (n*v - S)^2 > n*sum(y^2) - S^2.
ExceedsMeanPlusStd(v, y) ==
    LET n  == Len(y)
        S  == SumSeq(y)
        S2 == SumSeq([i \in 1..n |-> y[i] * y[i]])
    IN  /\ n * v - S > 0
        /\ (n * v - S) * (n * v - S) > n * S2 - S * S

\* ------------------------------------------------------------- curve model

FitClasses == {"LL4", "LL3u", "LL2"}

\* Number of parameters of fit_cls.fit_fn (the length of p0 and of popt).
NumParams(fit_cls) ==
    CASE fit_cls = "LL4"  -> 4
      [] fit_cls = "LL3u" -> 3
      [] fit_cls = "LL2"  -> 2

\* HillCurveLL4.ec50 = popt[3], LL3u: popt[2], LL2: popt[1] (0-based);
\* the sequences of the model are 1-based.
Ec50(fit_cls, popt) ==
    CASE fit_cls = "LL4"  -> popt[4]
      [] fit_cls = "LL3u" -> popt[3]
      [] fit_cls = "LL2"  -> popt[2]

\* HillCurveLL4.e0 = popt[2]; LL3u and LL2: 1.0 (one response unit).
E0(fit_cls, popt) == IF fit_cls = "LL4" THEN popt[3] ELSE 1

\* HillCurveLL4.emax = popt[1] (also LL3u); LL2: 0.0.
Emax(fit_cls, popt) == IF fit_cls = "LL2" THEN 0 ELSE popt[2]

\* HillCurveLL4.hill_slope = popt[0].
HillSlope(fit_cls, popt) == popt[1]

\* ------------------------------------------------------------------ fit_drc

\* A sample is <<dose, response, std_err>>; zip(doses, responses, std_errs).
Zip3(doses, responses, ses) ==
    [i \in 1..Len(doses) |-> <<doses[i], responses[i], ses[i]>>]

\* RemoveNaNs without the removal.
RemoveNaNs_Keep(samples) == samples

\* Lines 405-410: keep the samples whose response is not NaN.
RemoveNaNs(samples) == SelectSeq(samples, LAMBDA s : ~IsNaN(s[2]))

\* Python's tuple order: lexicographic on (dose, response[, std_err]).
TupleLess(a, b) ==
    \/ a[1] < b[1]
    \/ a[1] = b[1] /\ a[2] < b[2]
    \/ a[1] = b[1] /\ a[2] = b[2] /\ a[3] < b[3]

RECURSIVE InsertSorted(_, _)
InsertSorted(x, s) ==
    IF s = <<>> THEN <<x>>
    ELSE IF TupleLess(x, Head(s)) THEN <<x>> \o s
    ELSE <<Head(s)>> \o InsertSorted(x, Tail(s))

\* Sorted without the sort.
Sorted_AsGiven(samples) == samples

\* Lines 413-418: sorted(zip(...)).
RECURSIVE Sorted(_)
Sorted(samples) ==
    IF samples = <<>> THEN <<>>
    ELSE InsertSorted(Head(samples), Sorted(Tail(samples)))

Column(samples, k) == [i \in 1..Len(samples) |-> samples[i][k]]

\* The values a fitted parameter can take.
SlopeVals == {NaN, 1}
EmaxVals == {0}
E0Vals == {2, 4}
Ec50Vals == {NaN, 1, 10, 30}

\* What scipy.optimize.curve_fit can return as popt for fit_cls.
PoptChoices(fit_cls) ==
    CASE fit_cls = "LL4" ->
            {<<b, c, d, e>> : b \in SlopeVals, c \in EmaxVals,
                              d \in E0Vals, e \in Ec50Vals}
      [] fit_cls = "LL3u" ->
            {<<b, c, e>> : b \in SlopeVals, c \in EmaxVals, e \in Ec50Vals}
      [] fit_cls = "LL2" ->
            {<<b, e>> : b \in SlopeVals, e \in Ec50Vals}

\* The outcomes of the optimizer call that reach the code of fit_drc: it
\* returns popt, or fails to converge (RuntimeError).
OptChoices(fit_cls) ==
    {[conv |-> TRUE, popt |-> q] : q \in PoptChoices(fit_cls)}
        \cup {[conv |-> FALSE, popt |-> <<>>]}

\* p-values in thousandths; NaN when the F distribution is undefined.
PVals == {NaN, 50, 900}

\* Lines 448-451: df = len(doses) - 4; scipy.stats.f.cdf(f_ratio, 1, df) is
\* NaN unless df > 0, and otherwise depends on the residuals.
PChoices(n) == IF n - 4 > 0 THEN PVals ELSE {NaN}

\* Line 423, fit_cls.initial_guess -> scipy.stats.linregress: with fewer than
\* two distinct doses the regression is undefined; depending on the scipy
\* build it raises ValueError or yields NaN estimates.
GuessChoices(doses) ==
    IF Cardinality(Range(doses)) < 2 THEN {"ok", "ValueError"} ELSE {"ok"}

\* Results of fit_drc: kind is "None" (absent), "Null" (HillCurveNull),
\* "Curve" (an instance of fit_cls) or "raise" (an exception leaves fit_drc).
RNone == [kind |-> "None", exc |-> "", cls |-> "", popt |-> <<>>,
          mean |-> <<0, 1>>]

RRaise(e) == [kind |-> "raise", exc |-> e, cls |-> "", popt |-> <<>>,
              mean |-> <<0, 1>>]

RNull(m) == [kind |-> "Null", exc |-> "", cls |-> "Null", popt |-> <<>>,
             mean |-> m]

RCurve(fit_cls, popt) == [kind |-> "Curve", exc |-> "", cls |-> fit_cls,
                          popt |-> popt, mean |-> <<0, 1>>]

\* Line 435: any(np.isnan(popt)).
AnyNaN(popt) == \E i \in 1..Len(popt) : IsNaN(popt[i])

\* NullNotRejected with the comparison reversed.
NullNotRejected_Reversed(p, thr) == ~IsNaN(p) /\ p < thr

\* Line 453: p > null_rejection_threshold (False when p is NaN).
NullNotRejected(p, thr) == ~IsNaN(p) /\ p > thr

\* Ec50BelowMinDose with the comparison reversed.
Ec50BelowMinDose_Reversed(ec50, doses) == ec50 > SetMin(Range(doses))

\* Line 456: fit_obj.ec50 < np.min(doses).
Ec50BelowMinDose(ec50, doses) == ec50 < SetMin(Range(doses))

\* Line 461: responses[np.equal(doses, ctrl_dose)].  After line 415/417
\* responses is a tuple (zip yields tuples), and a tuple indexed by a numpy
\* boolean array raises TypeError.  isArray tells whether responses is still
\* a numpy array; the selection itself is what an array would give.
IndexByMask(responses, doses, ctrl_dose, isArray) ==
    IF isArray
    THEN [ok |-> TRUE,
          vals |-> Column(SelectSeq(Zip3(doses, responses, doses),
                                    LAMBDA s : s[1] = ctrl_dose), 2)]
    ELSE [ok |-> FALSE, vals |-> <<>>]

\* Line 462: fit_obj.e0 > (np.mean(controls) + np.std(controls)) -> None.
CtrlBaselineReject(e0, controls) == ExceedsMeanPlusStd(e0, controls)

\* AcceptFit with the EC50 check made before the null-model test.
AcceptFit_Ec50First(doses, responses, fit_cls, popt, thr, ctrl_dose, p) ==
    IF Ec50BelowMinDose(Ec50(fit_cls, popt), doses)
    THEN RNone
    ELSE IF thr # None /\ NullNotRejected(p, thr)
    THEN RNull(Mean(responses))
    ELSE IF ctrl_dose # None
    THEN RRaise("TypeError")
    ELSE RCurve(fit_cls, popt)

\* Lines 441-465 of fit_drc, after fit_obj = fit_cls(popt).
AcceptFit(doses, responses, fit_cls, popt, thr, ctrl_dose, p) ==
    IF thr # None /\ NullNotRejected(p, thr)
    THEN RNull(Mean(responses))
    ELSE IF Ec50BelowMinDose(Ec50(fit_cls, popt), doses)
    THEN RNone
    ELSE IF ctrl_dose # None
    THEN LET controls == IndexByMask(responses, doses, ctrl_dose, FALSE)
         IN  IF ~controls.ok THEN RRaise("TypeError")
             ELSE IF CtrlBaselineReject(E0(fit_cls, popt), controls.vals)
             THEN RNone
             ELSE RCurve(fit_cls, popt)
    ELSE RCurve(fit_cls, popt)

\* fit_drc (lines 404-465).  doses, responses, ses: the input arrays (ses is
\* read only when hasSE); guess, opt, p: the outcomes of the library calls.
FitDrc(doses, responses, hasSE, ses, fit_cls, thr, ctrl_dose, guess, opt, p) ==
    LET zipped == Zip3(doses, responses, IF hasSE THEN ses
                                         ELSE [i \in 1..Len(doses) |-> 0])
        kept   == Sorted(RemoveNaNs(zipped))
        d      == Column(kept, 1)
        r      == Column(kept, 2)
    IN  IF kept = <<>> THEN RNone
        ELSE IF guess # "ok" THEN RRaise(guess)
        ELSE IF Len(kept) < NumParams(fit_cls) THEN RRaise("TypeError")
        ELSE IF ~opt.conv THEN RNone
        ELSE IF AnyNaN(opt.popt) THEN RNone
        ELSE AcceptFit(d, r, fit_cls, opt.popt, thr, ctrl_dose, p)

\* Lines 407-410: arr[~response_nans], the entries of arr at the places where
\* the response is not NaN.
MaskOut(arr, responses) ==
    LET F[i \in 0..Len(arr)] ==
            IF i = 0 THEN <<>>
            ELSE IF IsNaN(responses[i]) THEN F[i - 1]
            ELSE Append(F[i - 1], arr[i])
    IN  F[Len(arr)]

NoCurveFitArgs == [called |-> FALSE, xdata |-> <<>>, ydata |-> <<>>,
                   hasSigma |-> FALSE, sigma |-> <<>>]

\* What scipy.optimize.curve_fit is called with (lines 425-430) on an input
\* of fit_drc: each array is masked on its own (lines 405-410), the arrays
\* are zipped, sorted and unzipped (lines 413-418); the call is made when
\* some sample remains (line 421) and initial_guess returned (line 423).
CurveFitArgs(doses, responses, hasSE, ses, guess) ==
    LET d0 == MaskOut(doses, responses)
        r0 == MaskOut(responses, responses)
        s0 == IF hasSE THEN MaskOut(ses, responses)
              ELSE [i \in 1..Len(d0) |-> 0]
        zipped == Sorted(Zip3(d0, r0, s0))
    IN  IF zipped = <<>> \/ guess # "ok" THEN NoCurveFitArgs
        ELSE [called |-> TRUE, xdata |-> Column(zipped, 1),
              ydata |-> Column(zipped, 2), hasSigma |-> hasSE,
              sigma |-> IF hasSE THEN Column(zipped, 3) ELSE <<>>]

\* The library calls fit_drc makes on an input, and the outcomes each can
\* have: initial_guess (line 423), curve_fit (lines 425-430) when the guess
\* returned and p0 is no longer than the data, scipy.stats.f.cdf (line 451)
\* when a finite popt came back and a threshold is given.  A call that is not
\* made has the outcome NoOpt / None.
NoOpt == [conv |-> FALSE, popt |-> <<>>]

Fitted(opt) == opt.conv /\ ~AnyNaN(opt.popt)

LibOutcomes(doses, responses, hasSE, ses, fit_cls, thr) ==
    LET kept == RemoveNaNs(Zip3(doses, responses, IF hasSE THEN ses
                                       ELSE [i \in 1..Len(doses) |-> 0]))
        n    == Len(kept)
    IN  UNION { UNION { { [guess |-> g, opt |-> o, p |-> q] :
                          q \in IF Fitted(o) /\ thr # None
                                THEN PChoices(n) ELSE {None} } :
                        o \in IF g = "ok" /\ n >= NumParams(fit_cls)
                              THEN OptChoices(fit_cls) ELSE {NoOpt} } :
                g \in IF n = 0 THEN {"ok"}
                      ELSE GuessChoices(Column(kept, 1)) }

\* ------------------------------------------------- fit_params_minimal: data

\* Names (datasets, cell lines, drugs, plates) are numbered in their sort
\* order.  EmptyStr is '' (line 661: dataset_id of a table without datasets).
EmptyStr == 0

\* The default null_rejection_threshold of fit_drc (line 376), thousandths.
DefaultNullRejection == 50

RECURSIVE Unique(_)
\* Index.unique(): the distinct values in order of first appearance.
Unique(s) ==
    IF s = <<>> THEN <<>>
    ELSE LET u == Unique(SubSeq(s, 1, Len(s) - 1))
             x == s[Len(s)]
         IN  IF x \in Range(u) THEN u ELSE Append(u, x)

Field(rows, f) == [i \in 1..Len(rows) |-> rows[i][f]]

\* HasDrugCombos with min() in place of max().
HasDrugCombos_Min(drugs) ==
    SetMin({Len(drugs[i]) : i \in 1..Len(drugs)}) > 1

\* Lines 555-557: drugs.map(len).max() > 1.
HasDrugCombos(drugs) == SetMax({Len(drugs[i]) : i \in 1..Len(drugs)}) > 1

\* Lines 560-564: drug and dose keys become their first component.
FirstComponent(rows) ==
    [i \in 1..Len(rows) |->
        [rows[i] EXCEPT !.drug = rows[i].drug[1], !.dose = rows[i].dose[1]]]

\* GroupBy collapsing to the dataset alone when either of cell line and drug
\* is a singleton.
GroupBy_CollapseEither(nDatasets, nCellLines, nDrugs) ==
    LET base == IF nDrugs > 1 /\ nCellLines = 1 THEN <<"drug">>
                ELSE IF nCellLines > 1 /\ nDrugs = 1 THEN <<"cell_line">>
                ELSE <<"cell_line", "drug">>
    IN  IF nDatasets > 1
        THEN IF nCellLines = 1 \/ nDrugs = 1 THEN <<"dataset">>
             ELSE <<"dataset">> \o base
        ELSE base

\* Lines 567-578: the grouping dimensions from the numbers of distinct
\* datasets (0 when the table has no dataset level), cell lines and drugs.
GroupBy(nDatasets, nCellLines, nDrugs) ==
    LET base == IF nDrugs > 1 /\ nCellLines = 1 THEN <<"drug">>
                ELSE IF nCellLines > 1 /\ nDrugs = 1 THEN <<"cell_line">>
                ELSE <<"cell_line", "drug">>
    IN  IF nDatasets > 1
        THEN IF nCellLines = 1 /\ nDrugs = 1 THEN <<"dataset">>
             ELSE <<"dataset">> \o base
        ELSE base

IndexOf(s, x) == CHOOSE i \in 1..Len(s) : s[i] = x

\* The group key of a row: its values on the grouping dimensions.
KeyOf(row, group_by) == [i \in 1..Len(group_by) |-> row[group_by[i]]]

RECURSIVE SeqLess(_, _)
SeqLess(a, b) ==
    IF a = <<>> THEN b # <<>>
    ELSE IF b = <<>> THEN FALSE
    ELSE \/ Head(a) < Head(b)
         \/ Head(a) = Head(b) /\ SeqLess(Tail(a), Tail(b))

RECURSIVE SortKeys(_)
SortKeys(S) ==
    IF S = {} THEN <<>>
    ELSE LET m == CHOOSE k \in S : \A o \in S \ {k} : SeqLess(k, o)
         IN  <<m>> \o SortKeys(S \ {m})

\* Line 584: expt_data.groupby(level=group_by) yields the groups in the sort
\* order of their keys.
GroupKeys(rows, group_by) ==
    SortKeys({KeyOf(rows[i], group_by) : i \in 1..Len(rows)})

\* The rows of one group, in table order.
GroupRows(rows, group_by, key) ==
    SelectSeq(rows, LAMBDA r : KeyOf(r, group_by) = key)

\* Lines 585-609: the value of dimension dim for a group: taken from the
\* group name when dim is grouped on, else the table's first value.
GroupValue(dim, group_by, key, first) ==
    IF dim \in Range(group_by)
    THEN IF Len(group_by) > 1 THEN key[IndexOf(group_by, dim)] ELSE key[1]
    ELSE first

\* GetControlResponses without the restriction to the group's plates.
GetControlResponses_AnyPlate(ctrl, dataset, cl_name, plates, strict) ==
    LET byDs == IF dataset # None /\ ctrl.hasDataset
                THEN SelectSeq(ctrl.rows, LAMBDA r : r.dataset = dataset)
                ELSE ctrl.rows
        byCl == SelectSeq(byDs, LAMBDA r : r.cell_line = cl_name)
    IN  [ok |-> byCl # <<>>, rows |-> byCl]

\* _get_control_responses (lines 493-513) on a control table that is not
\* None.  DataFrame.loc[label] raises KeyError when no row has the label;
\* .loc[plates] keeps the rows on the listed plates and, when a listed plate
\* has no row, raises KeyError or ignores it depending on the pandas build
\* (strict).
GetControlResponses(ctrl, dataset, cl_name, plates, strict) ==
    LET byDs == IF dataset # None /\ ctrl.hasDataset
                THEN SelectSeq(ctrl.rows, LAMBDA r : r.dataset = dataset)
                ELSE ctrl.rows
        byCl == SelectSeq(byDs, LAMBDA r : r.cell_line = cl_name)
        byPl == SelectSeq(byCl, LAMBDA r : r.plate \in plates)
    IN  IF dataset # None /\ ctrl.hasDataset /\ byDs = <<>>
        THEN [ok |-> FALSE, rows |-> <<>>]
        ELSE IF byCl = <<>> THEN [ok |-> FALSE, rows |-> <<>>]
        ELSE IF strict /\ \E pl \in plates :
                            \A i \in 1..Len(byCl) : byCl[i].plate # pl
        THEN [ok |-> FALSE, rows |-> <<>>]
        ELSE [ok |-> TRUE, rows |-> byPl]

\* Whether .loc[plates] meets a plate without a control row (then the pandas
\* build decides between KeyError and ignoring the plate).
StrictChoices(ctrl, dataset, cl_name, plates) ==
    LET lax == GetControlResponses(ctrl, dataset, cl_name, plates, FALSE)
    IN  IF lax.ok /\ ~GetControlResponses(ctrl, dataset, cl_name, plates,
                                          TRUE).ok
        THEN BOOLEAN ELSE {FALSE}

\* Line 520: the default ctrl_dose_fn, np.min(doses) / 10.0.
CtrlDoseFn(doses) == SetMin(Range(doses)) \div 10

\* np.min of an array: NaN when a value is NaN.
NpMin(a) == IF NaN \in Range(a) THEN NaN ELSE SetMin(Range(a))

\* np.min of a pandas Series (Series.min): NaN values are skipped.
SeriesMin(a) ==
    IF Range(a) \ {NaN} = {} THEN NaN ELSE SetMin(Range(a) \ {NaN})

\* EmaxObs with the greatest response taken.
EmaxObs_Max(resp_expt, is_viability) == SetMax(Range(resp_expt))

\* Line 667: emax_obs = np.min(resp_expt); resp_expt is a Series for
\* viability (line 614) and an array for DIP rates (line 645).
EmaxObs(resp_expt, is_viability) ==
    IF is_viability THEN SeriesMin(resp_expt) ELSE NpMin(resp_expt)

\* Lines 611-649: the arrays of one group.  ctrl_rows are the control rows
\* found for the group (none for viability data).
GroupArrays(dip_grp, ctrl_rows, is_viability) ==
    LET doses_expt == Field(dip_grp, "dose")
        resp_expt  == Field(dip_grp, "resp")
    IN  IF is_viability
        THEN [doses |-> doses_expt, resp |-> resp_expt, hasSE |-> FALSE,
              ses |-> [i \in 1..Len(dip_grp) |-> 0]]
        ELSE LET n_controls == Len(ctrl_rows)
                 doses_ctrl ==
                     [i \in 1..n_controls |-> CtrlDoseFn(doses_expt)]
             IN  [doses |-> doses_ctrl \o doses_expt,
                  resp  |-> Field(ctrl_rows, "resp") \o resp_expt,
                  hasSE |-> TRUE,
                  ses   |-> Field(ctrl_rows, "se") \o Field(dip_grp, "se")]

\* Lines 657-668: the row recorded for a group.
FitData(dataset, cl_name, dr_name, fit_obj, doses, resp_expt, is_viability) ==
    [dataset_id |-> IF dataset # None THEN dataset ELSE EmptyStr,
     cell_line |-> cl_name,
     drug |-> dr_name,
     fit_obj |-> fit_obj,
     min_dose_measured |-> SetMin(Range(doses)),
     max_dose_measured |-> SetMax(Range(doses)),
     emax_obs |-> EmaxObs(resp_expt, is_viability)]

\* _attach_extra_params, lines 754-772: the grouping dimensions recomputed
\* from the parameter table (dataset_id is the dataset dimension).
AttachGroupBy(base_params) ==
    LET datasets   == Unique(Field(base_params, "dataset_id"))
        noDatasets == Len(datasets) = 1 /\ datasets[1] = EmptyStr
        cell_lines == Unique(Field(base_params, "cell_line"))
        drugs      == Unique(Field(base_params, "drug"))
        base == IF Len(drugs) > 1 /\ Len(cell_lines) = 1 THEN <<"drug">>
                ELSE IF Len(cell_lines) > 1 /\ Len(drugs) = 1
                THEN <<"cell_line">>
                ELSE <<"cell_line", "drug">>
    IN  IF ~noDatasets /\ Len(datasets) > 1
        THEN IF Len(cell_lines) = 1 /\ Len(drugs) = 1 THEN <<"dataset">>
             ELSE <<"dataset">> \o base
        ELSE base

\* _attach_response_values (lines 850-907) on the table of n_rows rows
\* returned for the experimental table rows.  groupby(['dataset',
\* 'cell_line', 'drug'], sort=False) needs the dataset level (KeyError
\* without it) and yields the groups in the order of their first row; the
\* series of the groups are then given the index of df_params row by row
\* (line 898; ValueError when the lengths differ).
AttachResponseValues(n_rows, ctrl, rows, hasDataset, strict) ==
    IF ~hasDataset THEN [err |-> "KeyError", series |-> <<>>]
    ELSE LET GrpOf(r) == <<r.dataset, r.cell_line, r.drug>>
             grps == Unique([i \in 1..Len(rows) |-> GrpOf(rows[i])])
             DipGrp(grp) == SelectSeq(rows, LAMBDA r : GrpOf(r) = grp)
             Ctrl(grp) ==
                 IF ctrl.isNone THEN [ok |-> TRUE, rows |-> <<>>]
                 ELSE GetControlResponses(
                          ctrl, grp[1], grp[2],
                          Range(Field(DipGrp(grp), "plate")), strict)
         IN  IF \E j \in 1..Len(grps) : ~Ctrl(grps[j]).ok
             THEN [err |-> "KeyError", series |-> <<>>]
             ELSE IF Len(grps) # n_rows
             THEN [err |-> "ValueError", series |-> <<>>]
             ELSE [err |-> "",
                   series |-> [j \in 1..Len(grps) |->
                       [expt |-> Field(DipGrp(grps[j]), "resp"),
                        ctrl |-> Field(Ctrl(grps[j]).rows, "resp")]]]

\* --------------------------------------------------- table cells and numbers

\* A cell of the parameter table is [kind, val]: kind "None" (Python's None),
\* "nan", "inf", "num" (val is the fraction <<numerator, denominator>> in
\* lowest terms), "aa" / "auc" (val holds the arguments of the formula, whose
\* log10 factor is not evaluated), or the name of the exception that
\* computing the cell raises.
RECURSIVE Gcd(_, _)
Gcd(a, b) == IF b = 0 THEN a ELSE Gcd(b, a % b)

Abs(x) == IF x < 0 THEN -x ELSE x

\* n / d (d # 0) in lowest terms with a positive denominator.
Frac(n, d) ==
    LET g == Gcd(Abs(n), Abs(d))
        s == IF d < 0 THEN -1 ELSE 1
    IN  <<s * (n \div g), s * (d \div g)>>

CNone == [kind |-> "None", val |-> <<>>]

CNaN == [kind |-> "nan", val |-> <<>>]

CInf == [kind |-> "inf", val |-> <<>>]

CNum(n, d) == [kind |-> "num", val |-> Frac(n, d)]

CRaise(e) == [kind |-> e, val |-> <<>>]

Exceptions == {"TypeError", "AttributeError", "ZeroDivisionError"}

\* A float of the orchestrator (an integer or NaN) as a cell.
FromFloat(v) == IF IsNaN(v) THEN CNaN ELSE CNum(v, 1)

\* pandas.isnull.
IsNull(c) == c.kind \in {"None", "nan"}

CellLess(a, b) ==
    \/ a.kind = "num" /\ b.kind = "inf"
    \/ /\ a.kind = "num" /\ b.kind = "num"
       /\ a.val[1] * b.val[2] < b.val[1] * a.val[2]

\* np.min((a, b)) and np.max((a, b)): NaN when either is NaN.
NpMin2(a, b) ==
    IF a.kind = "nan" \/ b.kind = "nan" THEN CNaN
    ELSE IF CellLess(b, a) THEN b ELSE a

NpMax2(a, b) ==
    IF a.kind = "nan" \/ b.kind = "nan" THEN CNaN
    ELSE IF CellLess(a, b) THEN b ELSE a

\* Series / Series: null when an operand is null, infinite or NaN when the
\* divisor is zero.
CellDiv(a, b) ==
    IF IsNull(a) \/ IsNull(b) THEN CNaN
    ELSE IF b.val[1] = 0 THEN (IF a.val[1] = 0 THEN CNaN ELSE CInf)
    ELSE CNum(a.val[1] * b.val[2], a.val[2] * b.val[1])

\* A column built from the values computed row by row (DataFrame.apply,
\* Series.apply): when some value is a number the column is a float column
\* and None is stored as NaN; a column of None alone keeps None.
AsColumn(cells) ==
    IF \A i \in 1..Len(cells) : cells[i].kind = "None" THEN cells
    ELSE [i \in 1..Len(cells) |->
            IF cells[i].kind = "None" THEN CNaN ELSE cells[i]]

\* ----------------------------------------------- curve statistics (28-372)

\* x ** (1 / hill_slope).  The curves of the model have hill_slope 1.
PowInvSlope(x, hill_slope) == CASE hill_slope = 1 -> x

\* fit_fn (line 116) at dose x for plateaus c, d (fractions), ec50 e and
\* hill_slope 1: c + (d - c) / (1 + x / e) = (c*x + d*e) / (e + x).
FitFn(x, c, d, e) ==
    CASE x.kind = "nan" -> CNaN
      [] x.kind = "inf" -> CNum(c[1], c[2])
      [] x.kind = "num" ->
            CNum(c[1] * x.val[1] * d[2] + d[1] * e * c[2] * x.val[2],
                 c[2] * d[2] * (e * x.val[2] + x.val[1]))

\* divisor (lines 268-270; HillCurveNull: lines 74-76), as a fraction.
Divisor(fo) ==
    IF fo.kind = "Null" THEN fo.mean
    ELSE LET emax == Emax(fo.cls, fo.popt)
             e0   == E0(fo.cls, fo.popt)
         IN  <<IF emax > e0 THEN emax ELSE e0, 1>>

\* popt_rel once computed (lines 272-278, 321-326, 368-372): the plateau
\* parameters held in popt divided by divisor, as fractions.
PoptRel(fit_cls, popt) ==
    LET div == IF Emax(fit_cls, popt) > E0(fit_cls, popt)
               THEN Emax(fit_cls, popt) ELSE E0(fit_cls, popt)
    IN  [i \in 1..Len(popt) |->
            IF \/ fit_cls = "LL4" /\ i \in {2, 3}
               \/ fit_cls = "LL3u" /\ i = 2
            THEN Frac(popt[i], div)
            ELSE <<popt[i], 1>>]

\* fit (lines 37-38).  HillCurveNull holds a scalar popt, and
\* fit_fn(x, *self.popt) raises TypeError on it.
Fit(fo, x) ==
    IF fo.kind = "Null" THEN CRaise("TypeError")
    ELSE FitFn(x, <<Emax(fo.cls, fo.popt), 1>>, <<E0(fo.cls, fo.popt), 1>>,
               PowInvSlope(Ec50(fo.cls, fo.popt),
                           HillSlope(fo.cls, fo.popt)))

\* fit_rel (lines 280-281): fit_fn on popt_rel; LL3u and LL2 keep the upper
\* plateau 1.0 of their fit_fn.  HillCurveNull has no fit_rel.
FitRel(fo, x) ==
    IF fo.kind = "Null" THEN CRaise("AttributeError")
    ELSE LET rel == PoptRel(fo.cls, fo.popt)
         IN  FitFn(x,
                   IF fo.cls = "LL2" THEN <<0, 1>> ELSE rel[2],
                   IF fo.cls = "LL4" THEN rel[3] ELSE <<1, 1>>,
                   PowInvSlope(Ec50(fo.cls, fo.popt),
                               HillSlope(fo.cls, fo.popt)))

\* The plateaus as ic, auc and aa use them: swapped when emax > e0.
Plateaus(fo) ==
    LET emax == Emax(fo.cls, fo.popt)
        e0   == E0(fo.cls, fo.popt)
    IN  IF emax > e0 THEN [emax |-> e0, e0 |-> emax]
        ELSE [emax |-> emax, e0 |-> e0]

\* ic (lines 160-189; HillCurveNull: lines 78-79), for e0 > 0:
\* ec50 * ic_frac / (1 - ic_frac - emax / e0)
\*   = ec50 * ic_num * e0 / ((100 - ic_num) * e0 - 100 * emax).
\* A zero denominator is a ZeroDivisionError between Python floats (LL2, whose
\* emax and e0 are Python floats) and inf or NaN between numpy floats; NaN
\* is returned as None.
Ic(fo, ic_num) ==
    IF fo.kind = "Null" THEN CNone
    ELSE LET p   == Plateaus(fo)
             num == ic_num * p.e0
             den == (100 - ic_num) * p.e0 - 100 * p.emax
         IN  IF den = 0
             THEN IF fo.cls = "LL2" THEN CRaise("ZeroDivisionError")
                  ELSE IF num = 0 THEN CNone ELSE CInf
             ELSE CNum(Ec50(fo.cls, fo.popt)
                           * PowInvSlope(num, HillSlope(fo.cls, fo.popt)),
                       PowInvSlope(den, HillSlope(fo.cls, fo.popt)))

\* ec (lines 191-210; HillCurveNull: lines 81-82):
\* ec50 * ec_frac / (1 - ec_frac) = ec50 * ec_num / (100 - ec_num).
Ec(fo, ec_num) ==
    IF fo.kind = "Null" THEN CNone
    ELSE IF ec_num >= 100 THEN CNone
    ELSE CNum(Ec50(fo.cls, fo.popt)
                  * PowInvSlope(ec_num, HillSlope(fo.cls, fo.popt)),
              PowInvSlope(100 - ec_num, HillSlope(fo.cls, fo.popt)))

\* aa (lines 237-266): log10((ec50^b + max_conc^b) / ec50^b)
\* * ((e0 - emax) / e0) / b, where emax is emax_obs unless that is None.
\* The cell keeps <<ec50, b, max_conc, e0, emax numerator, emax denominator>>.
Aa(fo, max_conc, emax_obs) ==
    LET p    == Plateaus(fo)
        emax == IF emax_obs.kind = "None" THEN CNum(p.emax, 1) ELSE emax_obs
    IN  IF emax.kind # "num" THEN CNaN
        ELSE [kind |-> "aa",
              val |-> <<Ec50(fo.cls, fo.popt), HillSlope(fo.cls, fo.popt),
                        max_conc, p.e0, emax.val[1], emax.val[2]>>]

\* auc (lines 212-235): log10((ec50^b + min_conc^b) / min_conc^b) / b
\* * ((e0 - emax) / e0).  The cell keeps <<ec50, b, min_conc, e0, emax>>.
Auc(fo, min_conc) ==
    LET p == Plateaus(fo)
    IN  [kind |-> "auc",
         val |-> <<Ec50(fo.cls, fo.popt), HillSlope(fo.cls, fo.popt),
                   min_conc, p.e0, p.emax>>]

\* ------------------------------------------------------ parameter enrichment

\* Clamp without the lower bound.
Clamp_NoFloor(v, row) == NpMin2(v, CNum(row.max_dose_measured, 1))

\* Lines 691-692, 704-705, 739-740: np.min((v, max_dose_measured)), then
\* np.max((., min_dose_measured)).
Clamp(v, row) ==
    NpMax2(NpMin2(v, CNum(row.max_dose_measured, 1)),
           CNum(row.min_dose_measured, 1))

\* _calc_ic (lines 683-693).
CalcIc(row, ic_num) ==
    IF row.fit_obj.kind = "None" THEN CNone
    ELSE LET ic_n == Ic(row.fit_obj, ic_num)
         IN  IF ic_n.kind = "None" \/ ic_n.kind \in Exceptions THEN ic_n
             ELSE Clamp(ic_n, row)

\* _calc_ec (lines 696-706).
CalcEc(row, ec_num) ==
    IF row.fit_obj.kind = "None" THEN CNone
    ELSE LET ec_n == Ec(row.fit_obj, ec_num)
         IN  IF ec_n.kind = "None" THEN CNone ELSE Clamp(ec_n, row)

\* _calc_e (lines 709-717); ec_val is the row's cell of the ec column.
CalcE(row, ec_val, relative) ==
    IF row.fit_obj.kind = "None" THEN CNone
    ELSE IF ec_val.kind = "None" THEN CNone
    ELSE IF relative THEN FitRel(row.fit_obj, ec_val)
    ELSE Fit(row.fit_obj, ec_val)

\* _calc_aa (lines 720-725).  row.emax is the row's cell of the emax column;
\* a row without that column has no attribute emax.
CalcAa(row, hasEmax, emax) ==
    IF row.fit_obj.kind \in {"None", "Null"} THEN CNone
    ELSE IF ~hasEmax THEN CRaise("AttributeError")
    ELSE Aa(row.fit_obj, row.max_dose_measured, emax)

\* _calc_auc (lines 728-732).
CalcAuc(row) ==
    IF row.fit_obj.kind \in {"None", "Null"} THEN CNone
    ELSE Auc(row.fit_obj, row.min_dose_measured)

\* _calc_ec50 (lines 735-741).
CalcEc50(row) ==
    IF row.fit_obj.kind \in {"None", "Null"} THEN CNone
    ELSE Clamp(CNum(Ec50(row.fit_obj.cls, row.fit_obj.popt), 1), row)

\* Lines 801-805: the emax column.
CalcEmax(row) ==
    IF row.fit_obj.kind \in {"None", "Null"} THEN CNone
    ELSE Fit(row.fit_obj, CNum(row.max_dose_measured, 1))

\* Lines 810-811: fo.divisor if fo else None.
CalcDivisor(row) ==
    IF row.fit_obj.kind = "None" THEN CNone
    ELSE LET d == Divisor(row.fit_obj) IN CNum(d[1], d[2])

\* Lines 822-824: the hill column.
CalcHill(row) ==
    IF row.fit_obj.kind \in {"None", "Null"} THEN CNone
    ELSE CNum(HillSlope(row.fit_obj.cls, row.fit_obj.popt), 1)

\* _generate_label (lines 774-789).  index is the row's index tuple
\* <<dataset_id, cell_line, drug>>; each component is read at
\* group_by.index(dimension), its place in group_by.  The label is kept as
\* the sequence of its lines (names are strings, which str() returns as they
\* are).
GenerateLabel(index, gb) ==
    (IF "dataset" \in Range(gb)
     THEN <<index[IndexOf(gb, "dataset")]>> ELSE <<>>)
    \o (IF "cell_line" \in Range(gb)
        THEN <<index[IndexOf(gb, "cell_line")]>> ELSE <<>>)
    \o (IF "drug" \in Range(gb)
        THEN <<index[IndexOf(gb, "drug")]>> ELSE <<>>)

\* The index tuple of a row of the parameter table (line 673).
RowIndex(row) == <<row.dataset_id, row.cell_line, row.drug>>

\* The first row whose cell is an exception, 0 when there is none.
FirstRaise(cells) ==
    LET R == {i \in 1..Len(cells) : cells[i].kind \in Exceptions}
    IN  IF R = {} THEN 0 ELSE SetMin(R)

\* The result of _attach_extra_params: the exception that left it (err, ""
\* when it returned) and the row it was raised on, the label column, and the
\* statistic columns, named <<"ic", n>>, <<"ec", n>>, <<"e", n>>,
\* <<"e_rel", n>>, <<"emax", 0>>, <<"emax_rel", 0>>, <<"emax_obs_rel", 0>>,
\* <<"aa", 0>>, <<"auc", 0>>, <<"hill", 0>>.
AttachResult(err, err_row, label, cols) ==
    [err |-> err, err_row |-> err_row, label |-> label, cols |-> cols]

\* _attach_extra_params (lines 744-847).  o holds the requested statistics:
\* o.ic, o.ec, o.e, o.e_rel are custom_ic_concentrations,
\* custom_ec_concentrations, custom_e_values, custom_e_rel_values; o.aa,
\* o.auc, o.hill, o.emax are the include_... flags.
AttachExtraParams(bp, is_viability, o) ==
    LET N        == Len(bp)
        gb       == AttachGroupBy(bp)
        label    == [i \in 1..N |-> GenerateLabel(RowIndex(bp[i]), gb)]
        Ics(n)   == [i \in 1..N |-> CalcIc(bp[i], n)]
        ec50     == AsColumn([i \in 1..N |-> CalcEc50(bp[i])])
        emax     == AsColumn([i \in 1..N |-> CalcEmax(bp[i])])
        divisor  == AsColumn([i \in 1..N |-> CalcDivisor(bp[i])])
        emax_rel == [i \in 1..N |-> CellDiv(emax[i], divisor[i])]
        emax_obs_rel ==
            [i \in 1..N |-> CellDiv(FromFloat(bp[i].emax_obs), divisor[i])]
        aas      == [i \in 1..N |->
                        CalcAa(bp[i], o.emax,
                               IF o.emax THEN emax[i] ELSE CNone)]
        auc      == AsColumn([i \in 1..N |-> CalcAuc(bp[i])])
        hill     == AsColumn([i \in 1..N |-> CalcHill(bp[i])])
        ec_nums  == ((o.ec \ {50}) \cup o.e) \cup o.e_rel
        Ecs(n)   == AsColumn([i \in 1..N |-> CalcEc(bp[i], n)])
        Es(n)    == [i \in 1..N |-> CalcE(bp[i], Ecs(n)[i], FALSE)]
        ERels(n) == [i \in 1..N |-> CalcE(bp[i], Ecs(n)[i], TRUE)]
        icBad    == {n \in o.ic : FirstRaise(Ics(n)) > 0}
        eBad     == {n \in o.e : FirstRaise(Es(n)) > 0}
        eRelBad  == {n \in o.e_rel : FirstRaise(ERels(n)) > 0}
        Raised(cells) ==
            AttachResult(cells[FirstRaise(cells)].kind, FirstRaise(cells),
                         <<>>, <<>>)
        keys     ==
            {<<"ic", n>> : n \in o.ic}
            \cup (IF 50 \in o.ec THEN {<<"ec", 50>>} ELSE {})
            \cup (IF o.emax THEN {<<"emax", 0>>} ELSE {})
            \cup (IF ~is_viability /\ o.emax
                  THEN {<<"emax_rel", 0>>, <<"emax_obs_rel", 0>>} ELSE {})
            \cup (IF o.aa THEN {<<"aa", 0>>} ELSE {})
            \cup (IF o.auc THEN {<<"auc", 0>>} ELSE {})
            \cup (IF o.hill THEN {<<"hill", 0>>} ELSE {})
            \cup {<<"ec", n>> : n \in ec_nums}
            \cup {<<"e", n>> : n \in o.e}
            \cup {<<"e_rel", n>> : n \in o.e_rel}
        ColumnOf(k) ==
            CASE k[1] = "ic" -> AsColumn(Ics(k[2]))
              [] k[1] = "ec" -> IF k[2] \in ec_nums THEN Ecs(k[2]) ELSE ec50
              [] k[1] = "emax" -> emax
              [] k[1] = "emax_rel" -> emax_rel
              [] k[1] = "emax_obs_rel" -> emax_obs_rel
              [] k[1] = "aa" -> AsColumn(aas)
              [] k[1] = "auc" -> auc
              [] k[1] = "hill" -> hill
              [] k[1] = "e" -> AsColumn(Es(k[2]))
              [] k[1] = "e_rel" -> AsColumn(ERels(k[2]))
    IN  IF icBad # {} THEN Raised(Ics(CHOOSE n \in icBad : TRUE))
        ELSE IF o.aa /\ FirstRaise(aas) > 0 THEN Raised(aas)
        ELSE IF eBad # {} THEN Raised(Es(CHOOSE n \in eBad : TRUE))
        ELSE IF eRelBad # {}
        THEN Raised(ERels(CHOOSE n \in eRelBad : TRUE))
        ELSE AttachResult("", 0, label, [k \in keys |-> ColumnOf(k)])

\* ------------------------------------------------------- is_param_truncated

\* Lines 7-8.  A number compared by np.isclose is a fraction of dose units
\* plus a fine part, a whole number of fine units, kept as a third entry of
\* val (absent when zero).  One fine unit is 1e-16, the absolute tolerance;
\* one dose unit is 1e-4, so that the relative tolerance 1e-12 is one fine
\* unit per dose unit.
PARAM_EQUAL_ATOL == 1
PARAM_EQUAL_RTOL == 1

Fine(n, d, f) == [kind |-> "num", val |-> Frac(n, d) \o <<f>>]

FinePart(c) == IF Len(c.val) = 3 THEN c.val[3] ELSE 0

\* IsClose with the absolute tolerance alone.
IsClose_AtolOnly(a, b) ==
    /\ a.kind = "num" /\ b.kind = "num"
    /\ a.val[1] * b.val[2] = b.val[1] * a.val[2]
    /\ Abs(FinePart(a) - FinePart(b)) <= PARAM_EQUAL_ATOL

\* np.isclose(a, b, atol, rtol): abs(a - b) <= atol + rtol * abs(b), False
\* for NaN, in exact arithmetic for doses b >= 0.  Numbers whose fractions of
\* dose units differ are further apart than any tolerance; for equal
\* fractions the fine parts decide, where rtol * abs(b) is the fraction of b
\* in fine units plus less than one fine unit of the sign of b's fine part.
IsClose(a, b) ==
    /\ a.kind = "num" /\ b.kind = "num"
    /\ a.val[1] * b.val[2] = b.val[1] * a.val[2]
    /\ LET lhs == b.val[2] * Abs(FinePart(a) - FinePart(b))
           rhs == b.val[2] * PARAM_EQUAL_ATOL
                    + PARAM_EQUAL_RTOL * Abs(b.val[1])
       IN  \/ lhs < rhs
           \/ lhs = rhs /\ (b.val[1] = 0 \/ FinePart(b) >= 0)

\* IsParamTruncated comparing with max_dose_measured alone.
IsParamTruncated_MaxOnly(values, rows) ==
    [i \in 1..Len(rows) |->
        IsClose(values[i], CNum(rows[i].max_dose_measured, 1))]

\* is_param_truncated (lines 1001-1007) on the column values of the table
\* with these rows; fillna has stored NaN for None.
IsParamTruncated(values, rows) ==
    [i \in 1..Len(rows) |->
        \/ IsClose(values[i], CNum(rows[i].max_dose_measured, 1))
        \/ IsClose(values[i], CNum(rows[i].min_dose_measured, 1))]

\* ------------------------------------------------------------------- state

\* fd_pc, fd_in, fd_out: a direct call of fit_drc, its arguments and its
\* result; fd_lib: whether the optimizer returned a finite popt in that call,
\* that popt, and the p-value the F-test computed (None when it was not run);
\* fd_fit: the arrays scipy.optimize.curve_fit was called with in that call.
\* pc, args: a call of fit_params_minimal and its arguments; expt_data: the
\* experimental table as the function holds it; group_by, groups: the
\* grouping dimensions and the groups still to fit; fit_params: the rows
\* recorded so far; fit_calls: the calls of fit_drc made so far, with the
\* arrays and the control rows of each; error: the exception that left the
\* function; df_params: the table returned.
\* df_resp: the response series attached by _attach_response_values.
\* at_pc, at_in, at_out: a call of _attach_extra_params, its arguments and its
\* result; at_flags: the result of is_param_truncated on that table.
\* pr_obj: a curve instance; pr_heap: the arrays in memory (the first is the
\* instance's popt); pr_cache: the instance's _popt_rel (None or the place of
\* an array in pr_heap); pr_th: for each thread, where it is in an access of
\* popt_rel and what its accesses returned.
VARIABLES fd_pc, fd_in, fd_out, fd_lib, fd_fit,
          pc, args, expt_data, group_by, groups, fit_params, fit_calls,
          error, df_params, df_resp,
          at_pc, at_in, at_out, at_flags,
          pr_obj, pr_cache, pr_heap, pr_th

fdVars == <<fd_pc, fd_in, fd_out, fd_lib, fd_fit>>

fpVars == <<pc, args, expt_data, group_by, groups, fit_params, fit_calls,
            error, df_params, df_resp>>

atVars == <<at_pc, at_in, at_out, at_flags>>

prVars == <<pr_obj, pr_cache, pr_heap, pr_th>>

vars == <<fd_pc, fd_in, fd_out, fd_lib, fd_fit,
          pc, args, expt_data, group_by, groups, fit_params, fit_calls,
          error, df_params, df_resp,
          at_pc, at_in, at_out, at_flags,
          pr_obj, pr_cache, pr_heap, pr_th>>

\* The <<dose, response>> samples of a direct call of fit_drc.
SampleVals == {<<10, 1>>, <<10, NaN>>, <<20, 3>>}

SampleSeqs == UNION {[1..n -> SampleVals] : n \in 0..MaxSamples}

NoLib == [fitted |-> FALSE, popt |-> <<>>, p |-> None]

NoArgs == [ctrl_data |-> [isNone |-> TRUE, hasDataset |-> FALSE,
                          rows |-> <<>>],
           expt_data |-> <<>>, exptHasDataset |-> FALSE,
           is_viability |-> FALSE, fit_cls |-> "LL4"]

\* The rows an experimental table is made of: wells of five
\* (dataset, cell line, drug) keys at two doses on two plates, a well without
\* a response, and a well treated with two drugs at once.
ExptRow(ds, cl, dr, dose, pl, resp) ==
    [dataset |-> ds, cell_line |-> cl, drug |-> dr,
     dose |-> [i \in 1..Len(dr) |-> dose], plate |-> pl, resp |-> resp,
     se |-> 1]

ExptRowVals ==
    {ExptRow(1, 1, <<1>>, 10, 1, 3), ExptRow(1, 1, <<1>>, 20, 2, 1),
     ExptRow(1, 1, <<2>>, 10, 1, 2), ExptRow(1, 2, <<1>>, 20, 2, 1),
     ExptRow(2, 1, <<1>>, 10, 1, 3), ExptRow(2, 2, <<2>>, 20, 2, 1),
     ExptRow(1, 1, <<1>>, 10, 1, NaN), ExptRow(1, 1, <<1, 2>>, 10, 1, 3)}

\* The same wells in a table without a dataset level.
ExptRowValsNoDataset ==
    {[r EXCEPT !.dataset = None] : r \in {q \in ExptRowVals : q.dataset = 1}}

CtrlRow(ds, cl, pl, resp) ==
    [dataset |-> ds, cell_line |-> cl, plate |-> pl, resp |-> resp, se |-> 1]

CtrlRowVals ==
    {CtrlRow(1, 1, 1, 0), CtrlRow(1, 1, 2, 5), CtrlRow(1, 2, 1, 6),
     CtrlRow(2, 1, 1, 7)}

CtrlRowValsNoDataset ==
    {[r EXCEPT !.dataset = None] : r \in {q \in CtrlRowVals : q.dataset = 1}}

Tables(S, lo, hi) == UNION {[1..n -> S] : n \in lo..hi}

CtrlTables ==
    {[isNone |-> TRUE, hasDataset |-> FALSE, rows |-> <<>>]}
    \cup {[isNone |-> FALSE, hasDataset |-> TRUE, rows |-> t] :
            t \in Tables(CtrlRowVals, 0, MaxCtrlRows)}
    \cup {[isNone |-> FALSE, hasDataset |-> FALSE, rows |-> t] :
            t \in Tables(CtrlRowValsNoDataset, 0, MaxCtrlRows)}

NoAttachIn == [base_params |-> <<>>, is_viability |-> FALSE,
               opts |-> [ic |-> {}, ec |-> {}, e |-> {}, e_rel |-> {},
                         aa |-> FALSE, auc |-> FALSE, hill |-> FALSE,
                         emax |-> FALSE]]

NoAttachOut == AttachResult("", 0, <<>>, <<>>)

NoFlags == [param |-> <<"", 0>>, err |-> "", flags |-> <<>>]

\* The curve of class fit_cls with slope 1, lower plateau 0, upper plateau 2
\* (LL4) and this ec50.
CurveOf(fit_cls, ec50) ==
    RCurve(fit_cls, CASE fit_cls = "LL4" -> <<1, 0, 2, ec50>>
                      [] fit_cls = "LL3u" -> <<1, 0, ec50>>
                      [] fit_cls = "LL2" -> <<1, ec50>>)

\* What fit_params_minimal records for a group besides its key: the fit,
\* min_dose_measured, max_dose_measured and emax_obs.  A failed fit, a Null
\* curve, a curve with ec50 at the least dose, one with ec50 above the
\* greatest dose (fitted with controls, and a NaN response), and one with
\* ec50 inside the range.
BaseBodies(fit_cls) ==
    {<<RNone, 10, 20, 1>>, <<RNull(<<4, 2>>), 10, 20, 1>>,
     <<CurveOf(fit_cls, 10), 10, 20, 1>>,
     <<CurveOf(fit_cls, 30), 1, 20, NaN>>,
     <<CurveOf(fit_cls, 10), 1, 20, 3>>}

\* Index tuples of parameter tables without datasets and with datasets.
BaseKeysNoDataset == {<<EmptyStr, 1, 1>>, <<EmptyStr, 1, 2>>,
                      <<EmptyStr, 2, 1>>}

BaseKeys == {<<1, 1, 1>>, <<1, 2, 2>>, <<2, 1, 1>>}

\* The index of a parameter table of n rows: distinct keys in sort order
\* (the order in which groupby yields the groups, line 584).
BaseIndexes(n) ==
    {ks \in [1..n -> BaseKeysNoDataset] \cup [1..n -> BaseKeys] :
        \A i \in 1..(n - 1) : SeqLess(ks[i], ks[i + 1])}

BaseRow(key, body) ==
    [dataset_id |-> key[1], cell_line |-> key[2], drug |-> key[3],
     fit_obj |-> body[1], min_dose_measured |-> body[2],
     max_dose_measured |-> body[3], emax_obs |-> body[4]]

\* The parameter tables fit_params_minimal returns for fit_cls.
BaseTables(fit_cls) ==
    UNION {{[i \in 1..n |-> BaseRow(ks[i], bs[i])] :
                ks \in BaseIndexes(n), bs \in [1..n -> BaseBodies(fit_cls)]} :
           n \in 1..MaxBaseRows}

\* The numbered statistics requested together.
NumberChoices ==
    {[ic |-> {}, ec |-> {}, e |-> {}, e_rel |-> {}],
     [ic |-> {50}, ec |-> {50}, e |-> {}, e_rel |-> {}],
     [ic |-> {0, 50, 80}, ec |-> {0, 80, 100}, e |-> {}, e_rel |-> {}],
     [ic |-> {100}, ec |-> {50}, e |-> {50}, e_rel |-> {}],
     [ic |-> {}, ec |-> {}, e |-> {80, 100}, e_rel |-> {}],
     [ic |-> {}, ec |-> {}, e |-> {}, e_rel |-> {80}]}

\* The include_... flags set together: none, all (as fit_params does), aa
\* alone, all but aa.
FlagChoices ==
    {[aa |-> FALSE, auc |-> FALSE, hill |-> FALSE, emax |-> FALSE],
     [aa |-> TRUE, auc |-> TRUE, hill |-> TRUE, emax |-> TRUE],
     [aa |-> TRUE, auc |-> FALSE, hill |-> FALSE, emax |-> FALSE],
     [aa |-> FALSE, auc |-> TRUE, hill |-> TRUE, emax |-> TRUE]}

AttachOptions ==
    {[ic |-> n.ic, ec |-> n.ec, e |-> n.e, e_rel |-> n.e_rel,
      aa |-> f.aa, auc |-> f.auc, hill |-> f.hill, emax |-> f.emax] :
        n \in NumberChoices, f \in FlagChoices}

\* No call of fit_drc, of fit_params_minimal, of _attach_extra_params is
\* under way; no curve instance is being accessed.
FitDrcIdle ==
    /\ fd_pc = "idle" /\ fd_out = RNone /\ fd_lib = NoLib
    /\ fd_fit = NoCurveFitArgs
    /\ fd_in = [doses |-> <<>>, responses |-> <<>>, hasSE |-> FALSE,
                ses |-> <<>>, fit_cls |-> "LL4", thr |-> None,
                ctrl_dose |-> None]

FitParamsIdle ==
    /\ pc = "idle" /\ args = NoArgs /\ expt_data = <<>> /\ group_by = <<>>
    /\ groups = <<>> /\ fit_params = <<>> /\ fit_calls = <<>>
    /\ error = "" /\ df_params = <<>> /\ df_resp = <<>>

AttachIdle ==
    /\ at_pc = "idle" /\ at_in = NoAttachIn /\ at_out = NoAttachOut
    /\ at_flags = NoFlags

PoptRelIdle ==
    /\ pr_obj = [cls |-> "LL4", popt |-> 0, arg |-> <<>>] /\ pr_cache = None
    /\ pr_heap = <<>> /\ pr_th = <<>>

\* A direct call of fit_drc is about to be made.
InitFitDrc ==
    /\ fd_pc = "call"
    /\ \E samples \in SampleSeqs, fit_cls \in FitClasses,
          thr \in {None, DefaultNullRejection}, ctrl_dose \in {None, 10},
          hasSE \in BOOLEAN :
            fd_in = [doses |-> Column(samples, 1),
                     responses |-> Column(samples, 2),
                     hasSE |-> hasSE,
                     ses |-> [i \in 1..Len(samples) |-> i],
                     fit_cls |-> fit_cls, thr |-> thr,
                     ctrl_dose |-> ctrl_dose]
    /\ fd_out = RNone
    /\ fd_lib = NoLib
    /\ fd_fit = NoCurveFitArgs
    /\ FitParamsIdle
    /\ AttachIdle
    /\ PoptRelIdle

\* A call of fit_params_minimal is about to be made.
InitFitParams ==
    /\ FitDrcIdle
    /\ pc = "start"
    /\ \E hasDs \in BOOLEAN, ctrl \in CtrlTables, viab \in BOOLEAN,
          fit_cls \in {"LL4", "LL2"} :
         \E t \in Tables(IF hasDs THEN ExptRowVals ELSE ExptRowValsNoDataset,
                         1, MaxExptRows) :
            args = [ctrl_data |-> ctrl, expt_data |-> t,
                    exptHasDataset |-> hasDs, is_viability |-> viab,
                    fit_cls |-> fit_cls]
    /\ expt_data = <<>> /\ group_by = <<>> /\ groups = <<>>
    /\ fit_params = <<>> /\ fit_calls = <<>> /\ error = "" /\ df_params = <<>>
    /\ df_resp = <<>>
    /\ AttachIdle
    /\ PoptRelIdle

Init == InitFitParams

\* One call of fit_drc.
CallFitDrc ==
    /\ fd_pc = "call"
    /\ \E lib \in LibOutcomes(fd_in.doses, fd_in.responses, fd_in.hasSE,
                              fd_in.ses, fd_in.fit_cls, fd_in.thr) :
          /\ fd_out' = FitDrc(fd_in.doses, fd_in.responses, fd_in.hasSE,
                              fd_in.ses, fd_in.fit_cls, fd_in.thr,
                              fd_in.ctrl_dose, lib.guess, lib.opt, lib.p)
          /\ fd_lib' = IF lib.guess = "ok" /\ Fitted(lib.opt)
                        THEN [fitted |-> TRUE, popt |-> lib.opt.popt,
                              p |-> lib.p]
                        ELSE NoLib
          /\ fd_fit' = CurveFitArgs(fd_in.doses, fd_in.responses,
                                    fd_in.hasSE, fd_in.ses, lib.guess)
    /\ fd_pc' = "done"
    /\ UNCHANGED <<fd_in, fpVars, atVars, prVars>>

\* fit_params_minimal, lines 546-582: the drug combination check and the
\* choice of the grouping dimensions.
Start ==
    /\ pc = "start"
    /\ IF HasDrugCombos(Field(args.expt_data, "drug"))
       THEN /\ pc' = "raised"
            /\ error' = "DrugCombosNotImplementedError"
            /\ UNCHANGED <<expt_data, group_by, groups>>
       ELSE LET rows == FirstComponent(args.expt_data)
                nDs  == IF args.exptHasDataset
                        THEN Len(Unique(Field(rows, "dataset"))) ELSE 0
                gb   == GroupBy(nDs,
                                Len(Unique(Field(rows, "cell_line"))),
                                Len(Unique(Field(rows, "drug"))))
            IN  /\ expt_data' = rows
                /\ group_by' = gb
                /\ groups' = GroupKeys(rows, gb)
                /\ pc' = "loop"
                /\ UNCHANGED error
    /\ UNCHANGED <<args, fit_params, fit_calls, df_params, df_resp, fdVars,
                   atVars, prVars>>

\* fit_params_minimal, lines 584-670: the loop body for the next group.
FitGroup ==
    /\ pc = "loop"
    /\ groups # <<>>
    /\ LET key      == Head(groups)
           dip_grp  == GroupRows(expt_data, group_by, key)
           datasets == Unique(Field(expt_data, "dataset"))
           dataset  == IF args.exptHasDataset
                       THEN GroupValue("dataset", group_by, key, datasets[1])
                       ELSE None
           cl_name  == GroupValue("cell_line", group_by, key,
                                  Unique(Field(expt_data, "cell_line"))[1])
           dr_name  == GroupValue("drug", group_by, key,
                                  Unique(Field(expt_data, "drug"))[1])
           ctrl     == args.ctrl_data
           plates   == Range(Field(dip_grp, "plate"))
           useCtrl  == ~args.is_viability /\ ~ctrl.isNone
           Raise(e) == /\ pc' = "raised"
                       /\ error' = e
                       /\ UNCHANGED <<groups, fit_params>>
       IN  IF ~args.is_viability /\ dataset = None /\ ~ctrl.isNone
              /\ ctrl.hasDataset
           THEN Raise("ValueError") /\ UNCHANGED fit_calls
           ELSE \E strict \in IF useCtrl
                              THEN StrictChoices(ctrl, dataset, cl_name,
                                                 plates)
                              ELSE {FALSE} :
                LET found == IF useCtrl
                             THEN GetControlResponses(ctrl, dataset, cl_name,
                                                      plates, strict)
                             ELSE [ok |-> TRUE, rows |-> <<>>]
                    arr   == GroupArrays(dip_grp, found.rows,
                                         args.is_viability)
                IN  IF ~found.ok
                    THEN Raise("KeyError") /\ UNCHANGED fit_calls
                    ELSE \E lib \in LibOutcomes(arr.doses, arr.resp,
                                                arr.hasSE, arr.ses,
                                                args.fit_cls,
                                                DefaultNullRejection) :
                         LET fit_obj == FitDrc(arr.doses, arr.resp, arr.hasSE,
                                               arr.ses, args.fit_cls,
                                               DefaultNullRejection, None,
                                               lib.guess, lib.opt, lib.p)
                         IN  /\ fit_calls' = Append(fit_calls,
                                   [key |-> <<dataset, cl_name, dr_name>>,
                                    doses |-> arr.doses, resp |-> arr.resp,
                                    ctrl_rows |-> found.rows,
                                    plates |-> plates])
                             /\ IF fit_obj.kind = "raise"
                                THEN Raise(fit_obj.exc)
                                ELSE /\ fit_params' = Append(fit_params,
                                          FitData(dataset, cl_name, dr_name,
                                                  fit_obj, arr.doses,
                                                  Field(dip_grp, "resp"),
                                                  args.is_viability))
                                     /\ groups' = Tail(groups)
                                     /\ UNCHANGED <<pc, error>>
    /\ UNCHANGED <<args, expt_data, group_by, df_params, df_resp, fdVars,
                   atVars, prVars>>

\* fit_params_minimal, lines 672-680: the table is built and returned.
Return ==
    /\ pc = "loop"
    /\ groups = <<>>
    /\ df_params' = fit_params
    /\ pc' = "done"
    /\ UNCHANGED <<args, expt_data, group_by, groups, fit_params, fit_calls,
                   error, df_resp, fdVars, atVars, prVars>>

\* fit_params_from_base, lines 977-979, as fit_params calls it on the table
\* fit_params_minimal returned: one call of _attach_response_values with the
\* same control and experimental tables.
CallAttachResponseValues ==
    /\ pc = "done"
    /\ \E strict \in BOOLEAN :
          LET res == AttachResponseValues(Len(df_params), args.ctrl_data,
                                          args.expt_data, args.exptHasDataset,
                                          strict)
          IN  /\ df_resp' = res.series
              /\ error' = res.err
              /\ pc' = IF res.err = "" THEN "attached" ELSE "raised"
    /\ UNCHANGED <<args, expt_data, group_by, groups, fit_params, fit_calls,
                   df_params, fdVars, atVars, prVars>>

\* Calls of fit_params_minimal, each followed by the re-attachment of the
\* response series.
Next == Start \/ FitGroup \/ Return \/ CallAttachResponseValues

Spec == Init /\ [][Next]_vars

\* Direct calls of fit_drc.
NextFit == CallFitDrc

SpecFit == InitFitDrc /\ [][NextFit]_vars

\* A call of _attach_extra_params on a table of fit_params_minimal is about
\* to be made.
InitAttach ==
    /\ FitDrcIdle
    /\ FitParamsIdle
    /\ PoptRelIdle
    /\ at_pc = "call"
    /\ \E fit_cls \in FitClasses, is_viability \in BOOLEAN,
          o \in AttachOptions :
         \E bp \in BaseTables(fit_cls) :
            at_in = [base_params |-> bp, is_viability |-> is_viability,
                     opts |-> o]
    /\ at_out = NoAttachOut
    /\ at_flags = NoFlags

\* One call of _attach_extra_params.
CallAttachExtraParams ==
    /\ at_pc = "call"
    /\ at_out' = AttachExtraParams(at_in.base_params, at_in.is_viability,
                                   at_in.opts)
    /\ at_pc' = IF at_out'.err = "" THEN "attached" ELSE "raised"
    /\ UNCHANGED <<at_in, at_flags, fdVars, fpVars, prVars>>

\* One call of is_param_truncated on the enriched table, for a column of
\* numbers.  On a column that holds None alone fillna leaves an object
\* column, on which np.isclose raises TypeError, or makes it a float column,
\* depending on the pandas build.
CallIsParamTruncated ==
    /\ at_pc = "attached"
    /\ \E k \in DOMAIN at_out.cols :
          /\ k[1] \notin {"aa", "auc"}
          /\ LET col    == at_out.cols[k]
                 values == [i \in 1..Len(col) |->
                              IF col[i].kind = "None" THEN CNaN ELSE col[i]]
             IN  \E e \in IF \A i \in 1..Len(col) : col[i].kind = "None"
                           THEN {"", "TypeError"} ELSE {""} :
                    at_flags' =
                        [param |-> k, err |-> e,
                         flags |-> IF e = ""
                                   THEN IsParamTruncated(values,
                                                         at_in.base_params)
                                   ELSE <<>>]
    /\ at_pc' = "flagged"
    /\ UNCHANGED <<at_in, at_out, fdVars, fpVars, prVars>>

\* Calls of _attach_extra_params, then of is_param_truncated.
NextAttach == CallAttachExtraParams \/ CallIsParamTruncated

SpecAttach == InitAttach /\ [][NextAttach]_vars

\* The <<min_dose_measured, max_dose_measured>> of the rows is_param_truncated
\* is called on directly.
TruncRanges == {<<0, 5>>, <<1, 20>>}

\* The values of a row with this range: NaN (an absent value, after fillna),
\* a dose inside the range, and for the least and the greatest dose the dose
\* itself and the numbers just within and just beyond the tolerance on either
\* side of it.
TruncValues(range) ==
    {CNaN, Fine(range[1] + 2, 1, 0)} \cup
    {Fine(c, 1, s * (PARAM_EQUAL_ATOL + PARAM_EQUAL_RTOL * c + x)) :
        c \in {range[1], range[2]}, s \in {-1, 0, 1}, x \in {0, 1}}

\* A row's range with one of its values.
TruncRowChoices ==
    UNION {{<<r, v>> : v \in TruncValues(r)} : r \in TruncRanges}

\* A call of is_param_truncated on a column of a parameter table is about to
\* be made.
InitTrunc ==
    /\ FitDrcIdle
    /\ FitParamsIdle
    /\ PoptRelIdle
    /\ at_pc = "attached"
    /\ \E n \in 1..MaxBaseRows :
         \E ks \in {CHOOSE x \in BaseIndexes(n) : TRUE} :
         \E chosen \in [1..n -> TruncRowChoices] :
            LET bp == [i \in 1..n |->
                         BaseRow(ks[i], <<RNone, chosen[i][1][1],
                                          chosen[i][1][2], NaN>>)]
            IN  /\ at_in = [NoAttachIn EXCEPT !.base_params = bp]
                /\ at_out = AttachResult("", 0,
                      [i \in 1..n |->
                         GenerateLabel(RowIndex(bp[i]), AttachGroupBy(bp))],
                      [k \in {<<"ic", 50>>} |->
                         [i \in 1..n |-> chosen[i][2]]])
    /\ at_flags = NoFlags

\* Direct calls of is_param_truncated.
NextTrunc == CallIsParamTruncated

SpecTrunc == InitTrunc /\ [][NextTrunc]_vars

\* ------------------------------------------------------------- popt_rel

\* ndarray.copy() (lines 275, 324, 371) with the self.popt made an alias.
CopyArray_Alias(heap, ref) == [heap |-> heap, ref |-> ref]

\* ndarray.copy() (lines 275, 324, 371): a new array with the same values.
CopyArray(heap, ref) ==
    [heap |-> Append(heap, heap[ref]), ref |-> Len(heap) + 1]

FracLess(a, b) == a[1] * b[2] < b[1] * a[2]

FracDiv(a, b) == Frac(a[1] * b[2], a[2] * b[1])

\* divisor (lines 268-270) read from the array self.popt: max(emax, e0),
\* with emax and e0 as the class defines them.
DivisorAt(cls, popt) ==
    LET emax == CASE cls = "LL4" -> popt[2]
                  [] cls = "LL3u" -> popt[2]
                  [] cls = "LL2" -> <<0, 1>>
        e0   == IF cls = "LL4" THEN popt[3] ELSE <<1, 1>>
    IN  IF FracLess(e0, emax) THEN emax ELSE e0

\* The places popt_rel divides, in the order of the statements (lines
\* 276-277: [2] then [1]; line 325: [1]; counted from 1 here).
DividedPlaces(cls) ==
    CASE cls = "LL4" -> <<3, 2>>
      [] cls = "LL3u" -> <<2>>
      [] cls = "LL2" -> <<>>

\* fit_fn(x, *vector) as fit_rel (lines 280-281) calls it on a vector it
\* has read; LL3u and LL2 pass their fixed plateaus.
FitFnOn(cls, vec, x) ==
    FitFn(x,
          IF cls = "LL2" THEN <<0, 1>> ELSE vec[2],
          IF cls = "LL4" THEN vec[3] ELSE <<1, 1>>,
          PowInvSlope(vec[Len(vec)][1], vec[1][1]))

\* The dose fit_rel is called with.
FitRelDose == CNum(10, 1)

\* The popt a curve is constructed with (lines 89-91).
CurvePopts(cls) ==
    CASE cls = "LL4" -> {<<1, 0, 2, 5>>, <<1, 4, 2, 5>>, <<1, 1, 1, 5>>}
      [] cls = "LL3u" -> {<<1, 0, 5>>, <<1, 3, 5>>}
      [] cls = "LL2" -> {<<1, 5>>}

ThreadIdle == [pc |-> "idle", op |-> "", k |-> 0, ref |-> 0, elt |-> <<0, 1>>,
               obs |-> <<>>]

\* A curve has been constructed (lines 89-91: popt stored, _popt_rel None)
\* and is shared by n threads.
InitThreads(n) ==
    /\ FitDrcIdle /\ FitParamsIdle /\ AttachIdle
    /\ \E cls \in FitClasses : \E popt \in CurvePopts(cls) :
          /\ pr_obj = [cls |-> cls, popt |-> 1, arg |-> popt]
          /\ pr_heap = <<[i \in 1..Len(popt) |-> <<popt[i], 1>>]>>
    /\ pr_cache = None
    /\ pr_th = [t \in 1..n |-> ThreadIdle]

\* A thread starts an access: curve.popt_rel or curve.fit_rel(x).
Access(t) ==
    /\ pr_th[t].pc = "idle"
    /\ Len(pr_th[t].obs) < MaxAccesses
    /\ \E op \in {"popt_rel", "fit_rel"} :
          pr_th' = [pr_th EXCEPT ![t].pc = "check", ![t].op = op]
    /\ UNCHANGED <<pr_obj, pr_cache, pr_heap, fdVars, fpVars, atVars>>

\* Lines 274, 323, 370: if self._popt_rel is None.
CheckCache(t) ==
    /\ pr_th[t].pc = "check"
    /\ pr_th' = [pr_th EXCEPT ![t].pc =
                    IF pr_cache = None THEN "copy" ELSE "return"]
    /\ UNCHANGED <<pr_obj, pr_cache, pr_heap, fdVars, fpVars, atVars>>

\* Lines 275, 324, 371: self._popt_rel = self.popt.copy().
StoreCopy(t) ==
    /\ pr_th[t].pc = "copy"
    /\ LET made == CopyArray(pr_heap, pr_obj.popt)
       IN  /\ pr_heap' = made.heap
           /\ pr_cache' = made.ref
    /\ pr_th' = [pr_th EXCEPT
                    ![t].pc = IF DividedPlaces(pr_obj.cls) = <<>>
                              THEN "return" ELSE "load",
                    ![t].k = 1]
    /\ UNCHANGED <<pr_obj, fdVars, fpVars, atVars>>

\* Lines 276, 277, 325: the array the division is applied to, self.popt_rel
\* (the property entered again, which finds _popt_rel set and returns it) or
\* self._popt_rel: the array _popt_rel names at that moment.
LoadArray(t) ==
    /\ pr_th[t].pc = "load"
    /\ pr_th' = [pr_th EXCEPT ![t].pc = "read", ![t].ref = pr_cache]
    /\ UNCHANGED <<pr_obj, pr_cache, pr_heap, fdVars, fpVars, atVars>>

\* Lines 276, 277, 325: the element is read.
ReadElement(t) ==
    /\ pr_th[t].pc = "read"
    /\ pr_th' = [pr_th EXCEPT
                    ![t].pc = "store",
                    ![t].elt = pr_heap[pr_th[t].ref]
                                      [DividedPlaces(pr_obj.cls)[pr_th[t].k]]]
    /\ UNCHANGED <<pr_obj, pr_cache, pr_heap, fdVars, fpVars, atVars>>

\* Lines 276, 277, 325: self.divisor is computed from self.popt and the
\* quotient is stored in the element.
StoreQuotient(t) ==
    /\ pr_th[t].pc = "store"
    /\ LET places == DividedPlaces(pr_obj.cls)
           me == pr_th[t]
       IN  /\ pr_heap' = [pr_heap EXCEPT ![me.ref][places[me.k]] =
                            FracDiv(me.elt,
                                    DivisorAt(pr_obj.cls,
                                              pr_heap[pr_obj.popt]))]
           /\ pr_th' = [pr_th EXCEPT
                          ![t].pc = IF me.k < Len(places)
                                    THEN "load" ELSE "return",
                          ![t].k = me.k + 1]
    /\ UNCHANGED <<pr_obj, pr_cache, fdVars, fpVars, atVars>>

\* Lines 278, 326, 372: return self._popt_rel.
ReturnArray(t) ==
    /\ pr_th[t].pc = "return"
    /\ pr_th' = [pr_th EXCEPT ![t].pc = "returned", ![t].ref = pr_cache]
    /\ UNCHANGED <<pr_obj, pr_cache, pr_heap, fdVars, fpVars, atVars>>

\* The caller reads the vector it was given: the reader of popt_rel keeps
\* its values, fit_rel (line 281) computes fit_fn on them.
ReadVector(t) ==
    /\ pr_th[t].pc = "returned"
    /\ LET vec == pr_heap[pr_th[t].ref]
           seen == IF pr_th[t].op = "popt_rel"
                   THEN [op |-> "popt_rel", vec |-> vec, val |-> CNone]
                   ELSE [op |-> "fit_rel", vec |-> <<>>,
                         val |-> FitFnOn(pr_obj.cls, vec, FitRelDose)]
       IN  pr_th' = [pr_th EXCEPT ![t].pc = "idle",
                                  ![t].obs = Append(@, seen)]
    /\ UNCHANGED <<pr_obj, pr_cache, pr_heap, fdVars, fpVars, atVars>>

\* The steps of the threads, interleaved in any order.
NextPoptRel ==
    \E t \in DOMAIN pr_th :
        \/ Access(t) \/ CheckCache(t) \/ StoreCopy(t) \/ LoadArray(t)
        \/ ReadElement(t) \/ StoreQuotient(t) \/ ReturnArray(t)
        \/ ReadVector(t)

InitPoptRel == InitThreads(MaxThreads)

\* One curve instance accessed by several threads.
SpecPoptRel == InitPoptRel /\ [][NextPoptRel]_vars

InitPoptRelSingle == InitThreads(1)

\* One curve instance accessed by a single thread.
SpecPoptRelSingle == InitPoptRelSingle /\ [][NextPoptRel]_vars

\* ------------------------------------------------------------------ claims

\* The experimental table names more than one simultaneous drug in a key.
InputHasCombo ==
    \E i \in 1..Len(args.expt_data) : Len(args.expt_data[i].drug) > 1

\* Exactly one of the two tables carries a dataset dimension.
DatasetMismatch ==
    ~args.ctrl_data.isNone /\ args.ctrl_data.hasDataset # args.exptHasDataset

\* C1: if a drug key of the experimental table names more than one drug,
\* fit_params_minimal ends with DrugCombosNotImplementedError, and fit_drc
\* has not been called and no row recorded at that point.
C1_ComboAborts ==
    (pc # "start" /\ InputHasCombo) =>
        /\ pc = "raised"
        /\ error = "DrugCombosNotImplementedError"
        /\ fit_calls = <<>>
        /\ fit_params = <<>>
        /\ df_params = <<>>

\* A table that mixes a combination with a single-drug well has been refused.
C1_Witness ==
    /\ pc = "raised"
    /\ error = "DrugCombosNotImplementedError"
    /\ \E i, j \in 1..Len(args.expt_data) :
          Len(args.expt_data[i].drug) > 1 /\ Len(args.expt_data[j].drug) = 1

\* Every experimental well has a control well of its cell line on its plate
\* (so that the control lookup meets no missing label).
ControlsOnEveryPlate ==
    \A i \in 1..Len(args.expt_data) :
        \E k \in 1..Len(args.ctrl_data.rows) :
            /\ args.ctrl_data.rows[k].cell_line = args.expt_data[i].cell_line
            /\ args.ctrl_data.rows[k].plate = args.expt_data[i].plate

\* C2: whenever exactly one of the two tables carries a dataset dimension
\* (either way round, DIP rate or viability), fit_params_minimal signals
\* invalid input and returns no table.  (Stated for the inputs whose control
\* lookup meets no missing label.)
C2_MismatchReturnsNoTable ==
    (DatasetMismatch /\ ~InputHasCombo /\ ControlsOnEveryPlate) =>
        /\ pc # "done"
        /\ df_params = <<>>

\* The groups of the input: its distinct (dataset, cell line, drug) keys.
InputGroups ==
    {<<args.expt_data[i].dataset, args.expt_data[i].cell_line,
       args.expt_data[i].drug[1]>> : i \in 1..Len(args.expt_data)}

RowKey(row) == <<row.dataset_id, row.cell_line, row.drug>>

\* C3: for a well-formed input (no drug combination, consistent dataset
\* keying) fit_params_minimal returns a table with one row per group and
\* pairwise distinct keys, whatever the outcome of each group's fit.  (Runs
\* that end in the control lookup's KeyError are left aside.)
C3_OneRowPerGroup ==
    (/\ ~InputHasCombo
     /\ ~DatasetMismatch
     /\ pc \in {"done", "raised"}
     /\ error # "KeyError") =>
        /\ pc = "done"
        /\ Len(df_params) = Cardinality(InputGroups)
        /\ \A i, j \in 1..Len(df_params) :
              RowKey(df_params[i]) = RowKey(df_params[j]) => i = j

\* C4: fit_drc never raises: it returns absent, a Null curve or a curve of
\* the requested variant.
C4_FitDrcNeverRaises ==
    fd_pc = "done" =>
        /\ fd_out.kind \in {"None", "Null", "Curve"}
        /\ fd_out.kind = "Curve" => fd_out.cls = fd_in.fit_cls

\* C5: fit_drc returns absent, without raising, when no sample remains: the
\* arrays are empty, or every response is NaN.
C5_NoSamplesAbsent ==
    (/\ fd_pc = "done"
     /\ \A i \in 1..Len(fd_in.responses) : IsNaN(fd_in.responses[i])) =>
        fd_out = RNone

\* fit_drc has returned absent on arrays whose responses are all NaN.
C5_Witness ==
    /\ fd_pc = "done"
    /\ Len(fd_in.responses) >= NumParams(fd_in.fit_cls)
    /\ \A i \in 1..Len(fd_in.responses) : IsNaN(fd_in.responses[i])
    /\ fd_out.kind = "None"

\* The positions of the input of fit_drc whose response is not NaN.
FdKeptIdx == {i \in 1..Len(fd_in.responses) : ~IsNaN(fd_in.responses[i])}

RECURSIVE SumOver(_, _)
SumOver(f, S) ==
    IF S = {} THEN 0
    ELSE LET i == CHOOSE x \in S : TRUE IN f[i] + SumOver(f, S \ {i})

\* C6: after a converged fit with finite parameters, if a threshold is given
\* and the p-value exceeds it, the result is a Null curve whose parameter is
\* the mean of the responses that are not NaN; without a threshold fit_drc
\* never returns a Null curve.
C6_NullModelTest ==
    fd_pc = "done" =>
        /\ (/\ fd_lib.fitted
            /\ fd_in.thr # None
            /\ ~IsNaN(fd_lib.p)
            /\ fd_lib.p > fd_in.thr) =>
               /\ fd_out.kind = "Null"
               /\ fd_out.mean[2] = Cardinality(FdKeptIdx)
               /\ fd_out.mean[1] = SumOver(fd_in.responses, FdKeptIdx)
        /\ fd_in.thr = None => fd_out.kind # "Null"

\* A fit on arrays holding a NaN response was replaced by the Null curve.
C6_Witness ==
    /\ fd_pc = "done"
    /\ fd_lib.fitted
    /\ fd_lib.p > fd_in.thr
    /\ fd_out.kind = "Null"
    /\ \E i \in 1..Len(fd_in.responses) : IsNaN(fd_in.responses[i])

\* C7: every non-Null curve fit_drc returned to fit_params_minimal has ec50
\* at or above the least dose it was fitted on (the doses whose response is
\* not NaN), and its row has ec50 >= min_dose_measured.
C7_Ec50NotBelowMinDose ==
    \A i \in 1..Len(fit_params) :
        fit_params[i].fit_obj.kind = "Curve" =>
            LET fo     == fit_params[i].fit_obj
                call   == fit_calls[i]
                fitted == {call.doses[j] : j \in
                             {k \in 1..Len(call.doses) :
                                 ~IsNaN(call.resp[k])}}
            IN  /\ \E d \in fitted :
                      /\ \A d2 \in fitted : d <= d2
                      /\ Ec50(fo.cls, fo.popt) >= d
                /\ Ec50(fo.cls, fo.popt) >= fit_params[i].min_dose_measured

\* A returned table holds a curve whose ec50 is the least measured dose.
C7_Witness ==
    /\ pc = "done"
    /\ \E i \in 1..Len(df_params) :
          /\ df_params[i].fit_obj.kind = "Curve"
          /\ Ec50(df_params[i].fit_obj.cls, df_params[i].fit_obj.popt)
                = df_params[i].min_dose_measured

\* The fit of a direct call of fit_drc passed the checks that come before
\* the control-baseline check.
FdSurvived ==
    /\ fd_lib.fitted
    /\ ~(fd_in.thr # None /\ ~IsNaN(fd_lib.p) /\ fd_lib.p > fd_in.thr)
    /\ \A i \in FdKeptIdx :
          Ec50(fd_in.fit_cls, fd_lib.popt) >= fd_in.doses[i]

\* The control responses: the samples whose dose is the control dose.
FdControls ==
    Column(SelectSeq(Zip3(fd_in.doses, fd_in.responses, fd_in.ses),
                     LAMBDA s : s[1] = fd_in.ctrl_dose /\ ~IsNaN(s[2])), 2)

\* C8: with a control dose, a fit that passed the earlier checks is absent
\* exactly when e0 does not exceed mean + std of the control responses, and
\* is returned as the fitted curve otherwise.
C8_CtrlBaselineCheck ==
    (fd_pc = "done" /\ fd_in.ctrl_dose # None /\ FdSurvived) =>
        IF ExceedsMeanPlusStd(E0(fd_in.fit_cls, fd_lib.popt), FdControls)
        THEN fd_out = RCurve(fd_in.fit_cls, fd_lib.popt)
        ELSE fd_out = RNone

\* The grouping rule as stated, on the numbers of distinct datasets,
\* cell lines and drugs.
StatedDims(nDatasets, nCellLines, nDrugs) ==
    LET rest == CASE nDrugs > 1 /\ nCellLines = 1 -> <<"drug">>
                  [] nCellLines > 1 /\ nDrugs = 1 -> <<"cell_line">>
                  [] OTHER -> <<"cell_line", "drug">>
    IN  CASE nDatasets > 1 /\ nDrugs = 1 /\ nCellLines = 1 -> <<"dataset">>
          [] nDatasets > 1 /\ ~(nDrugs = 1 /\ nCellLines = 1) ->
                <<"dataset">> \o rest
          [] OTHER -> rest

InputCount(f) ==
    Cardinality({args.expt_data[i][f] : i \in 1..Len(args.expt_data)})

\* C9: the grouping dimensions fit_params_minimal uses are the stated
\* function of the numbers of distinct datasets, cell lines and drugs of the
\* input, and _attach_extra_params recomputes the same dimensions from the
\* table returned.
C9_GroupingRule ==
    /\ pc \in {"loop", "done"} =>
          group_by = StatedDims(IF args.exptHasDataset
                                THEN InputCount("dataset") ELSE 0,
                                InputCount("cell_line"), InputCount("drug"))
    /\ pc = "done" => AttachGroupBy(df_params) = group_by

\* A table of two groups told apart by their dataset alone was returned.
C9_Witness ==
    /\ pc = "done"
    /\ Len(df_params) = 2
    /\ group_by = <<"dataset">>

\* The plates holding the experimental wells of the group with this key.
InputPlates(key) ==
    {args.expt_data[i].plate : i \in
        {k \in 1..Len(args.expt_data) :
            /\ args.expt_data[k].dataset = key[1]
            /\ args.expt_data[k].cell_line = key[2]
            /\ args.expt_data[k].drug[1] = key[3]}}

\* C10: the control responses merged into a group's arrays are only those of
\* the group's cell line (and dataset, when both tables carry datasets) on a
\* plate holding one of the group's experimental wells.
C10_ControlsOfTheGroupOnly ==
    \A c \in 1..Len(fit_calls) :
        LET call == fit_calls[c]
            n    == Len(call.ctrl_rows)
        IN  /\ \A k \in 1..n :
                  /\ call.ctrl_rows[k].cell_line = call.key[2]
                  /\ (args.exptHasDataset /\ args.ctrl_data.hasDataset) =>
                        call.ctrl_rows[k].dataset = call.key[1]
                  /\ call.ctrl_rows[k].plate \in InputPlates(call.key)
                  /\ call.resp[k] = call.ctrl_rows[k].resp
            /\ Len(call.resp) = n + Cardinality(
                  {i \in 1..Len(args.expt_data) :
                      /\ args.expt_data[i].dataset = call.key[1]
                      /\ args.expt_data[i].cell_line = call.key[2]
                      /\ args.expt_data[i].drug[1] = call.key[3]})

\* A group was fitted with a control response merged into its arrays.
C10_Witness ==
    \E c \in 1..Len(fit_calls) :
        /\ fit_calls[c].ctrl_rows # <<>>
        /\ Len(fit_calls[c].doses) > Len(fit_calls[c].ctrl_rows)

\* The experimental wells of the input that belong to the group with this
\* key, in table order.
InputGroupRows(key) ==
    SelectSeq(args.expt_data, LAMBDA r : /\ r.dataset = key[1]
                                         /\ r.cell_line = key[2]
                                         /\ r.drug[1] = key[3])

\* The control wells of the input that match the group with this key: its
\* cell line, its dataset when both tables carry datasets, on its plates.
InputMatchingControls(key) ==
    IF args.ctrl_data.isNone THEN <<>>
    ELSE SelectSeq(args.ctrl_data.rows, LAMBDA r :
            /\ r.cell_line = key[2]
            /\ (args.exptHasDataset /\ args.ctrl_data.hasDataset) =>
                  r.dataset = key[1]
            /\ r.plate \in InputPlates(key))

\* C11: for every group, DIP rate or viability, the arrays given to fit_drc
\* are the matching control samples, each at one-tenth of the group's least
\* experimental dose, followed by the experimental samples, and the recorded
\* min_dose_measured / max_dose_measured are the least / greatest of those
\* doses.
C11_ArraysAreControlsThenExpt ==
    \A c \in 1..Len(fit_calls) :
        LET call == fit_calls[c]
            ctl  == InputMatchingControls(call.key)
            ex   == InputGroupRows(call.key)
            n    == Len(ctl)
            minE == SetMin({ex[i].dose[1] : i \in 1..Len(ex)})
        IN  /\ Len(call.doses) = n + Len(ex)
            /\ Len(call.resp) = n + Len(ex)
            /\ \A k \in 1..n :
                  /\ 10 * call.doses[k] = minE
                  /\ call.resp[k] = ctl[k].resp
            /\ \A k \in 1..Len(ex) :
                  /\ call.doses[n + k] = ex[k].dose[1]
                  /\ call.resp[n + k] = ex[k].resp
            /\ c <= Len(fit_params) =>
                  /\ fit_params[c].min_dose_measured =
                        SetMin(Range(call.doses))
                  /\ fit_params[c].max_dose_measured =
                        SetMax(Range(call.doses))

\* C16: when the response series are re-attached, whatever the row order of
\* the experimental table, the experimental and control series of every row
\* of the output are the responses of that row's own (dataset, cell line,
\* drug) group.
C16_SeriesOfOwnGroup ==
    (pc = "attached" /\ ~DatasetMismatch) =>
        \A i \in 1..Len(df_params) :
            /\ df_resp[i].expt =
                  Field(InputGroupRows(RowKey(df_params[i])), "resp")
            /\ df_resp[i].ctrl =
                  Field(InputMatchingControls(RowKey(df_params[i])), "resp")

\* _attach_extra_params has returned a table.
Attached == at_pc \in {"attached", "flagged"}

\* The ic{n} and ec{n} columns (ec50 among them) of the enriched table.
PotencyColumns == {k \in DOMAIN at_out.cols : k[1] \in {"ic", "ec"}}

\* The value the row's curve gives for the column before any clamping.
RawPotency(row, k) ==
    IF k[1] = "ic" THEN Ic(row.fit_obj, k[2]) ELSE Ec(row.fit_obj, k[2])

RawAbove(row, k) ==
    LET raw == RawPotency(row, k)
    IN  \/ raw.kind = "inf"
        \/ raw.kind = "num" /\ raw.val[1] > row.max_dose_measured * raw.val[2]

RawBelow(row, k) ==
    LET raw == RawPotency(row, k)
    IN  raw.kind = "num" /\ raw.val[1] < row.min_dose_measured * raw.val[2]

\* C12: in every row with a fit, each ic{n} / ec{n} value (ec50 included)
\* that is not null lies in [min_dose_measured, max_dose_measured]: a raw
\* value above the range is reported as max_dose_measured, one below as
\* min_dose_measured, one inside unchanged.
C12_PotencyClamped ==
    Attached =>
        \A i \in 1..Len(at_in.base_params) : \A k \in PotencyColumns :
            LET row == at_in.base_params[i]
                v   == at_out.cols[k][i]
            IN  (row.fit_obj.kind # "None" /\ ~IsNull(v)) =>
                    /\ v.kind = "num"
                    /\ v.val[1] >= row.min_dose_measured * v.val[2]
                    /\ v.val[1] <= row.max_dose_measured * v.val[2]
                    /\ RawAbove(row, k) =>
                          v = CNum(row.max_dose_measured, 1)
                    /\ RawBelow(row, k) =>
                          v = CNum(row.min_dose_measured, 1)
                    /\ (~RawAbove(row, k) /\ ~RawBelow(row, k)) =>
                          v = RawPotency(row, k)

\* A table was returned in which one row has a value clamped down to the
\* greatest dose, a value clamped up to the least dose and a value left as
\* computed, strictly inside the range.
C12_Witness ==
    /\ Attached
    /\ \E i \in 1..Len(at_in.base_params) :
          LET row == at_in.base_params[i]
          IN  /\ row.fit_obj.kind = "Curve"
              /\ \E k \in PotencyColumns :
                    /\ RawAbove(row, k)
                    /\ at_out.cols[k][i] = CNum(row.max_dose_measured, 1)
              /\ \E k \in PotencyColumns :
                    /\ RawBelow(row, k)
                    /\ at_out.cols[k][i] = CNum(row.min_dose_measured, 1)
              /\ \E k \in PotencyColumns :
                    /\ at_out.cols[k][i].kind = "num"
                    /\ CellLess(CNum(row.min_dose_measured, 1),
                                at_out.cols[k][i])
                    /\ CellLess(at_out.cols[k][i],
                                CNum(row.max_dose_measured, 1))

\* The call of _attach_extra_params is over.
AttachOver == at_pc \in {"attached", "raised", "flagged"}

\* C13: computing the columns never raises on a row whose fit is absent or
\* Null, and in the table returned every statistic column is null in the rows
\* whose fit is absent, and auc, aa, hill and ec50 are null in the rows whose
\* fit is the Null curve.
C13_NullColumns ==
    AttachOver =>
        /\ at_out.err # "" =>
              at_in.base_params[at_out.err_row].fit_obj.kind = "Curve"
        /\ at_out.err = "" =>
              \A i \in 1..Len(at_in.base_params) : \A k \in DOMAIN at_out.cols :
                  LET kind == at_in.base_params[i].fit_obj.kind
                  IN  /\ kind = "None" => IsNull(at_out.cols[k][i])
                      /\ (/\ kind = "Null"
                          /\ k \in {<<"auc", 0>>, <<"aa", 0>>, <<"hill", 0>>,
                                    <<"ec", 50>>}) =>
                             IsNull(at_out.cols[k][i])

\* C14: whenever aa is requested, with or without the emax column, the aa of
\* every row with a curve is the curve's aa with max_dose_measured as the
\* upper bound and the row's emax_obs in place of the fitted Emax.  (Calls
\* that end in an exception raised on a row without a curve are left aside.)
C14_AaUsesEmaxObs ==
    (/\ AttachOver
     /\ at_in.opts.aa
     /\ at_out.err # "" =>
           /\ at_out.err = "AttributeError"
           /\ at_in.base_params[at_out.err_row].fit_obj.kind = "Curve") =>
        /\ at_out.err = ""
        /\ \A i \in 1..Len(at_in.base_params) :
              LET row == at_in.base_params[i]
              IN  row.fit_obj.kind = "Curve" =>
                     at_out.cols[<<"aa", 0>>][i] =
                        Aa(row.fit_obj, row.max_dose_measured,
                           FromFloat(row.emax_obs))

\* The row's value on a grouping dimension.
DimValue(row, dim) ==
    CASE dim = "dataset" -> row.dataset_id
      [] dim = "cell_line" -> row.cell_line
      [] dim = "drug" -> row.drug

\* C15: the label of every row is made of the row's own values on the
\* grouping dimensions, in the order dataset, cell line, drug: its cell-line
\* part is the row's cell_line and its drug part is the row's drug.
C15_LabelOfOwnKey ==
    Attached =>
        \A i \in 1..Len(at_in.base_params) :
            LET gb == AttachGroupBy(at_in.base_params)
            IN  at_out.label[i] =
                    [k \in 1..Len(gb) |->
                        DimValue(at_in.base_params[i], gb[k])]

\* The value is within 1e-16 + 1e-12 * bound (PARAM_EQUAL_ATOL fine units
\* plus PARAM_EQUAL_RTOL fine units per dose unit) of the dose bound.
WithinTolerance(v, bound) ==
    /\ v.kind = "num"
    /\ v.val[1] = bound * v.val[2]
    /\ Abs(FinePart(v)) <= 1 + bound

\* C17: is_param_truncated marks a row true if and only if its value is
\* within the combined tolerance of the row's min_dose_measured or of its
\* max_dose_measured; a value inside the range beyond the tolerance and an
\* absent value are marked false.
C17_TruncatedIffAtBoundary ==
    (at_pc = "flagged" /\ at_flags.err = "") =>
        \A i \in 1..Len(at_in.base_params) :
            LET row == at_in.base_params[i]
                v   == at_out.cols[at_flags.param][i]
            IN  at_flags.flags[i] <=>
                    \/ WithinTolerance(v, row.min_dose_measured)
                    \/ WithinTolerance(v, row.max_dose_measured)

\* is_param_truncated has marked a value true that is further than the
\* absolute tolerance from the bound, and a number of another row false.
C17_Witness ==
    /\ at_pc = "flagged"
    /\ \E i \in 1..Len(at_flags.flags) :
          /\ at_flags.flags[i]
          /\ Abs(FinePart(at_out.cols[at_flags.param][i])) > PARAM_EQUAL_ATOL
    /\ \E i \in 1..Len(at_flags.flags) :
          /\ ~at_flags.flags[i]
          /\ at_out.cols[at_flags.param][i].kind = "num"

\* C19: whenever the raw ic{n} or ec{n} value of a row's curve lies strictly
\* below min_dose_measured or strictly above max_dose_measured, the value in
\* the table is the nearest boundary and is_param_truncated is true for that
\* column and row.
C19_OutOfRangeFlagged ==
    (at_pc = "flagged" /\ at_flags.param \in PotencyColumns) =>
        \A i \in 1..Len(at_in.base_params) :
            LET row == at_in.base_params[i]
                k   == at_flags.param
            IN  row.fit_obj.kind = "Curve" =>
                   /\ RawAbove(row, k) =>
                         /\ at_out.cols[k][i] = CNum(row.max_dose_measured, 1)
                         /\ at_flags.err = ""
                         /\ at_flags.flags[i]
                   /\ RawBelow(row, k) =>
                         /\ at_out.cols[k][i] = CNum(row.min_dose_measured, 1)
                         /\ at_flags.err = ""
                         /\ at_flags.flags[i]

\* is_param_truncated flagged a value that was raised to the least dose, in a
\* table where another row's value of the column is not flagged.
C19_Witness ==
    /\ at_pc = "flagged"
    /\ at_flags.param \in PotencyColumns
    /\ at_flags.err = ""
    /\ \E i, j \in 1..Len(at_in.base_params) :
          /\ at_in.base_params[i].fit_obj.kind = "Curve"
          /\ RawBelow(at_in.base_params[i], at_flags.param)
          /\ at_flags.flags[i]
          /\ ~at_flags.flags[j]

\* What an access observes when popt_rel is the fully rescaled vector.
Rescaled(seen) ==
    IF seen.op = "popt_rel"
    THEN seen.vec = PoptRel(pr_obj.cls, pr_obj.arg)
    ELSE seen.val = FitRel(RCurve(pr_obj.cls, pr_obj.arg), FitRelDose)

\* C18: for one curve instance accessed by any number of threads, popt_rel
\* is computed at most once (at most one copy of popt is ever made), and
\* every read, also one concurrent with the first access, sees the fully
\* rescaled vector: plateau parameters divided by divisor exactly once.
C18_ComputedOnceAndRescaled ==
    /\ Len(pr_heap) <= 2
    /\ \A t \in DOMAIN pr_th : \A j \in 1..Len(pr_th[t].obs) :
          Rescaled(pr_th[t].obs[j])

\* C20: in a single thread, for LL4, LL3u and LL2 curves, every access sees
\* popt with only the plateau parameters divided by max(emax, e0) (slope and
\* EC50 unchanged), later accesses see the same values as the first, and
\* popt itself is never changed by an access of popt_rel or fit_rel.
C20_SingleThreadRescaledOnce ==
    Len(pr_th) = 1 =>
        /\ pr_heap[pr_obj.popt] =
              [i \in 1..Len(pr_obj.arg) |-> <<pr_obj.arg[i], 1>>]
        /\ \A j \in 1..Len(pr_th[1].obs) :
              LET seen == pr_th[1].obs[j]
              IN  /\ Rescaled(seen)
                  /\ seen.op = "popt_rel" =>
                        /\ seen.vec[1] = <<pr_obj.arg[1], 1>>
                        /\ seen.vec[Len(seen.vec)] =
                              <<pr_obj.arg[Len(pr_obj.arg)], 1>>
                  /\ \A i \in 1..j :
                        pr_th[1].obs[i].op = seen.op =>
                            pr_th[1].obs[i] = seen

\* A single thread has read popt_rel twice on an LL4 curve whose divisor is
\* not 1, and the vector differs from popt.
C20_Witness ==
    /\ Len(pr_th) = 1
    /\ pr_obj.cls = "LL4"
    /\ Len(pr_th[1].obs) = 2
    /\ pr_th[1].obs[1].op = "popt_rel"
    /\ pr_th[1].obs[2].op = "popt_rel"
    /\ pr_th[1].obs[2].vec # pr_heap[pr_obj.popt]

\* The samples curve_fit was called with, and the samples of the input of
\* fit_drc whose response is not NaN, each as <<dose, response, std_err>>
\* (std_err 0 when no standard errors were given).
FdHanded ==
    [i \in 1..Len(fd_fit.xdata) |->
        <<fd_fit.xdata[i], fd_fit.ydata[i],
          IF fd_fit.hasSigma THEN fd_fit.sigma[i] ELSE 0>>]

FdInputSample(i) ==
    <<fd_in.doses[i], fd_in.responses[i],
      IF fd_in.hasSE THEN fd_in.ses[i] ELSE 0>>

\* C21: the samples handed to the optimizer are exactly the input samples
\* whose response is not NaN (each as many times as it occurs in the input,
\* with its own dose, response and standard error), in ascending dose
\* order; standard errors are handed exactly when they were given.
C21_HandedSamples ==
    (fd_pc = "done" /\ fd_fit.called) =>
        /\ Len(fd_fit.ydata) = Len(fd_fit.xdata)
        /\ fd_fit.hasSigma = fd_in.hasSE
        /\ fd_fit.hasSigma => Len(fd_fit.sigma) = Len(fd_fit.xdata)
        /\ Len(fd_fit.xdata) = Cardinality(FdKeptIdx)
        /\ \A i \in 1..Len(FdHanded) : \E j \in FdKeptIdx :
              /\ FdHanded[i] = FdInputSample(j)
              /\ Cardinality({k \in 1..Len(FdHanded) :
                                FdHanded[k] = FdHanded[i]})
                   = Cardinality({k \in FdKeptIdx :
                                    FdInputSample(k) = FdInputSample(j)})
        /\ \A i \in 1..(Len(fd_fit.xdata) - 1) :
              fd_fit.xdata[i] <= fd_fit.xdata[i + 1]

\* curve_fit was called with standard errors on an input that held a NaN
\* response and whose remaining samples were not in dose order.
C21_Witness ==
    /\ fd_pc = "done"
    /\ fd_fit.called
    /\ fd_fit.hasSigma
    /\ \E i \in 1..Len(fd_in.responses) : IsNaN(fd_in.responses[i])
    /\ \E i, j \in FdKeptIdx : i < j /\ fd_in.doses[i] > fd_in.doses[j]

\* The optimizer was called on enough samples and failed numerically: it did
\* not converge, or returned a NaN parameter.
FdNumericalFailure ==
    /\ fd_fit.called
    /\ Len(fd_fit.xdata) >= NumParams(fd_in.fit_cls)
    /\ ~fd_lib.fitted

\* The fit was found insignificant: a threshold is given and p exceeds it.
FdInsignificant ==
    fd_in.thr # None /\ ~IsNaN(fd_lib.p) /\ fd_lib.p > fd_in.thr

\* The fitted EC50 is below the least dose handed to the optimizer.
FdLowEc50 ==
    \A i \in 1..Len(fd_fit.xdata) :
        Ec50(fd_in.fit_cls, fd_lib.popt) < fd_fit.xdata[i]

\* C22: the checks of fit_drc run in the order numerical failure, null-model
\* test, EC50 below the least dose, control baseline: a numerical failure
\* gives absent whatever the other arguments; an insignificant fit gives the
\* Null curve even when its EC50 is below the least dose; a significant (or
\* untested) fit with a low EC50 gives absent even when a control dose is
\* given; and the control stage is reached only by fits that passed the
\* three earlier checks.
C22_CheckOrder ==
    fd_pc = "done" =>
        /\ FdNumericalFailure => fd_out = RNone
        /\ fd_lib.fitted =>
              /\ FdInsignificant => fd_out.kind = "Null"
              /\ (~FdInsignificant /\ FdLowEc50) => fd_out = RNone
              /\ (fd_out.kind = "None" /\ FdLowEc50) => ~FdInsignificant
              /\ fd_out.kind \in {"raise", "Curve"} =>
                    ~FdInsignificant /\ ~FdLowEc50

\* A converged, insignificant fit whose EC50 is below the least dose came
\* back as the Null curve.
C22_Witness ==
    /\ fd_pc = "done"
    /\ fd_lib.fitted
    /\ FdInsignificant
    /\ FdLowEc50
    /\ fd_out.kind = "Null"

\* C23: the emax_obs recorded for a group is the minimum over the group's
\* experimental responses only: it is one of them (or NaN when one of them is
\* NaN), it is their least when none is NaN, and it is never a control
\* response merged into the fit, even a lower one.
C23_EmaxObsFromExptOnly ==
    \A i \in 1..Len(fit_params) :
        LET resp == Field(InputGroupRows(fit_calls[i].key), "resp")
            nums == Range(resp) \ {NaN}
            obs  == fit_params[i].emax_obs
        IN  /\ obs \in Range(resp)
            /\ ~IsNaN(obs) => \A v \in nums : obs <= v
            /\ NaN \notin Range(resp) => ~IsNaN(obs)

\* A group of two wells was fitted together with a control response lower
\* than both of its responses, and its emax_obs is the lower of the two.
C23_Witness ==
    \E i \in 1..Len(fit_params) :
        LET resp == Field(InputGroupRows(fit_calls[i].key), "resp")
        IN  /\ Cardinality(Range(resp)) > 1
            /\ NaN \notin Range(resp)
            /\ fit_calls[i].ctrl_rows # <<>>
            /\ \E k \in 1..Len(fit_calls[i].ctrl_rows) : \A v \in Range(resp) :
                  fit_calls[i].ctrl_rows[k].resp < v
            /\ fit_params[i].emax_obs = SetMin(Range(resp))

====
